---------------------------- MODULE Spec2Model ----------------------------
(***************************************************************************)
(* Model of the in-process caching and indexing layer of the journal tool  *)
(* (src/src/analytics.js, second half: AdvancedLRUCache, BloomFilter,      *)
(* Trie, PerformanceEngine).  Each class is a state machine over its own   *)
(* fields; every method is one action, an async method one action per      *)
(* stretch of code between two awaits.  JavaScript Maps are modelled with  *)
(* their insertion order where the code iterates them.                     *)
(***************************************************************************)
EXTENDS Integers, Sequences, FiniteSets, TLC

(***************************************************************************)
(* Bounds of the model.                                                    *)
(***************************************************************************)
\* constructor argument maxSize of AdvancedLRUCache
maxSize == 2
\* constructor argument defaultTTL of AdvancedLRUCache
defaultTTL == 1
\* largest value Date.now() takes in the model
MaxTime == 3
\* largest number of get calls between two clear calls
MaxGets == 2
\* largest explicit ttl argument passed to set
MaxTtl == 2

\* largest number of add calls on one BloomFilter
MaxAdds == 2

\* largest number of insert calls on one Trie
MaxInserts == 3
\* largest limit argument passed to startsWith
MaxLimit == 2

\* largest number of calls made on one PerformanceEngine
MaxCalls == 2
\* largest value Date.now() takes while the PerformanceEngine runs
MaxClock == 3

\* largest number of push calls on one RingBuffer between two clear calls
MaxPushes == 4

\* largest number of enqueue calls on one MessageQueue that is only enqueued
\* to and dequeued from
MaxEnqueues == 3
\* largest number of enqueue calls on one MessageQueue whose messages are
\* also acknowledged, rejected and retried
MaxMessages == 2

\* largest number of execute calls on one CircuitBreaker
MaxExecutes == 6
\* largest number of operations one CircuitBreaker has in flight at a time
MaxRunning == 2
\* largest value Date.now() takes while the CircuitBreaker is used
MaxBreakerClock == 3

\* largest number of consume calls on one RateLimiter
MaxConsumes == 4
\* largest value Date.now() takes while the RateLimiter is used
MaxLimiterClock == 3

\* keys passed to the cache; "" is the JavaScript empty string, a falsy key
Keys == {"", "a", "b"}
\* keys of the runs that vary the ttl argument and the value
TtlKeys == {"a", "b"}
\* values stored in the cache
Values == {"v1", "v2"}
\* JavaScript null as returned by get
Null == "null"

\* the ttl argument of set: null (the default parameter) or a number
JsNull == [type |-> "null"]
Num(n) == [type |-> "number", n |-> n]
TtlArgs == {JsNull} \cup {Num(n) : n \in 0..MaxTtl}

VARIABLES
  cache,        \* AdvancedLRUCache.cache: key -> value
  accessOrder,  \* AdvancedLRUCache.accessOrder: Map key -> timestamp, in Map order
  expiryTimes,  \* AdvancedLRUCache.expiryTimes: key -> expiry timestamp
  hitCount,     \* AdvancedLRUCache.hitCount
  missCount,    \* AdvancedLRUCache.missCount
  now,          \* the value Date.now() returns
  getCalls,     \* history: get calls since construction or the last clear
  lastSet,      \* history: per stored key, the time and ttl argument of the set
                \* call that stored its present entry
  last,         \* history: the latest call, its arguments and its return value
  bf,           \* the BloomFilter object: "none" before construction, "threw"
                \* when the constructor threw, else its fields
  added,        \* history: the items passed to add
  bfLast,       \* history: the latest BloomFilter call and its return value
  trie,         \* the TrieNode objects of a Trie: path from the root -> node
  wordCount,    \* Trie.wordCount
  inserts,      \* history: the insert calls made, in order
  trieLast,     \* history: the latest Trie call and what it returned
  entryFiles,   \* the dates d for which data/entries/<d>.json exists
  initState,    \* PerformanceEngine.initialized / initPromise and the await
                \* performInitialization stands at
  initStarts,   \* history: the number of times performInitialization was called
  existsFilter, \* PerformanceEngine.existsFilter, the fields of the BloomFilter
  pCache,       \* PerformanceEngine.cache, the fields of the AdvancedLRUCache
  searchTrie,   \* PerformanceEngine.searchTrie, the fields of the Trie
  queryCount,   \* PerformanceEngine.queryCount
  clock,        \* Date.now(), in units of five minutes
  tasks,        \* the pending and the settled calls: per caller, the await the
                \* call stands at, its arguments and locals, its result
  calls,        \* history: the number of calls made
  readFailures, \* history: the number of readJson failures getEntry caught
  returned,     \* history: per cache key, what the latest call that did not
                \* answer from the cache returned, and when
  rb,           \* the RingBuffer object: "none" before construction, else its
                \* fields
  pushed,       \* history: the items pushed since construction or the last clear
  rbLast,       \* history: the latest RingBuffer call and what it returned
  mq,           \* the MessageQueue object: "none" before construction, else its
                \* fields and the retry timers that setTimeout holds
  mqLast,       \* history: the latest MessageQueue call and what it returned
  cb,           \* the CircuitBreaker object: state "none" before construction,
                \* else its fields, the clock and the operations in flight
  cbHist,       \* history: the execute calls made, the operations invoked and
                \* the successes seen since the breaker last became HALF_OPEN
  cbLast,       \* history: the latest CircuitBreaker step and its outcome
  rl,           \* the RateLimiter object: "none" before construction, else its
                \* fields and the clock
  rlHist,       \* history: the consume calls made and the unit consumes that
                \* succeeded since the clock last moved
  rlLast        \* history: the latest RateLimiter call and what it returned

cacheVars == <<cache, accessOrder, expiryTimes, hitCount, missCount, now,
               getCalls, lastSet, last>>

bloomVars == <<bf, added, bfLast>>

trieVars == <<trie, wordCount, inserts, trieLast>>

engineVars == <<entryFiles, initState, initStarts, existsFilter, pCache,
                searchTrie, queryCount, clock, tasks, calls, readFailures,
                returned>>

ringVars == <<rb, pushed, rbLast>>

queueVars == <<mq, mqLast>>

\* the objects of the classes modelled after PerformanceEngine
breakerVars == <<cb, cbHist, cbLast>>

limiterVars == <<rl, rlHist, rlLast>>

laterVars == <<ringVars, queueVars, breakerVars, limiterVars>>

vars == <<cacheVars, bloomVars, trieVars, engineVars, laterVars>>

\* what the calls on one object leave alone
NotCache == <<bloomVars, trieVars, engineVars, laterVars>>
NotBloom == <<cacheVars, trieVars, engineVars, laterVars>>
NotTrie == <<cacheVars, bloomVars, engineVars, laterVars>>
NotEngine == <<cacheVars, bloomVars, trieVars, laterVars>>
earlierVars == <<cacheVars, bloomVars, trieVars, engineVars>>
NotRing == <<earlierVars, queueVars, breakerVars, limiterVars>>
NotQueue == <<earlierVars, ringVars, breakerVars, limiterVars>>
NotBreaker == <<earlierVars, ringVars, queueVars, limiterVars>>
NotLimiter == <<earlierVars, ringVars, queueVars, breakerVars>>

(***************************************************************************)
(* JavaScript Map helpers.  A Map iterated by the code is a sequence of    *)
(* [key, time] records in insertion order; the others are functions.       *)
(***************************************************************************)
MapKeys(m) == {m[i].key : i \in 1..Len(m)}

MapIndex(m, k) == CHOOSE i \in 1..Len(m) : m[i].key = k

\* Map.prototype.set: an existing key keeps its position, a new key is appended
MapSet(m, k, t) ==
  IF k \in MapKeys(m)
    THEN [m EXCEPT ![MapIndex(m, k)] = [key |-> k, time |-> t]]
    ELSE Append(m, [key |-> k, time |-> t])

\* Map.prototype.delete
MapDelete(m, k) == SelectSeq(m, LAMBDA e : e.key # k)

FnSet(f, k, v) == [x \in DOMAIN f \cup {k} |-> IF x = k THEN v ELSE f[x]]

FnDelete(f, k) == [x \in DOMAIN f \ {k} |-> f[x]]

EmptyFn == [x \in {} |-> 0]

(***************************************************************************)
(* AdvancedLRUCache                                                        *)
(***************************************************************************)
\* `ttl || this.defaultTTL`: null and 0 are falsy
ActualTTL(ttl) ==
  IF ttl.type = "number" /\ ttl.n # 0 THEN ttl.n ELSE defaultTTL

\* `expiry && now > expiry` of get: the key has an expiry and it has passed
IsExpiredAtBoundary(exp, k, t) == k \in DOMAIN exp /\ exp[k] # 0 /\ t >= exp[k]
IsExpired(exp, k, t) == k \in DOMAIN exp /\ exp[k] # 0 /\ t > exp[k]

\* `this.missCount++` of the expired branch of get
MissCountUnchanged(m) == m
MissCountAfterExpiry(m) == m + 1

\* `this.cache.size >= this.maxSize && !this.cache.has(key)` of set
MustEvict(c, k) == Cardinality(DOMAIN c) >= maxSize /\ k \notin DOMAIN c

\* the loop of evictLRU: the index in Map order of the first entry with the
\* least timestamp, 0 (oldestKey = null) when the Map is empty
RECURSIVE ScanOldest(_, _, _)
ScanOldest(acc, i, oldest) ==
  IF i > Len(acc) THEN oldest
  ELSE IF oldest = 0 \/ acc[i].time < acc[oldest].time
    THEN ScanOldest(acc, i + 1, i)
    ELSE ScanOldest(acc, i + 1, oldest)

OldestIndex(acc) == ScanOldest(acc, 1, 0)

\* `if (oldestKey)`: null and the empty string are falsy
KeyIsTruthy(k) == k # ""

\* the keys evictLRU passes to delete: at most one
EvictedKeys(acc) ==
  LET i == OldestIndex(acc) IN
  IF i # 0 /\ KeyIsTruthy(acc[i].key) THEN {acc[i].key} ELSE {}

NoCall == [op |-> "none", key |-> "", val |-> Null, ret |-> Null]

InitCache ==
  /\ cache = EmptyFn
  /\ accessOrder = <<>>
  /\ expiryTimes = EmptyFn
  /\ hitCount = 0
  /\ missCount = 0
  /\ now = 1
  /\ getCalls = 0
  /\ lastSet = EmptyFn
  /\ last = NoCall

\* Date.now() advances between two calls
Tick ==
  /\ now < MaxTime
  /\ now' = now + 1
  /\ last' = NoCall
  /\ UNCHANGED <<cache, accessOrder, expiryTimes, hitCount, missCount,
                 getCalls, lastSet>>
  /\ UNCHANGED NotCache

\* get(key)
Get(k) ==
  /\ getCalls < MaxGets
  /\ getCalls' = getCalls + 1
  /\ IF IsExpired(expiryTimes, k, now)
       THEN /\ cache' = FnDelete(cache, k)
            /\ accessOrder' = MapDelete(accessOrder, k)
            /\ expiryTimes' = FnDelete(expiryTimes, k)
            /\ lastSet' = FnDelete(lastSet, k)
            /\ missCount' = MissCountAfterExpiry(missCount)
            /\ hitCount' = hitCount
            /\ last' = [op |-> "get", key |-> k, val |-> Null, ret |-> Null]
       ELSE IF k \in DOMAIN cache
         THEN /\ accessOrder' = MapSet(accessOrder, k, now)
              /\ hitCount' = hitCount + 1
              /\ missCount' = missCount
              /\ last' = [op |-> "get", key |-> k, val |-> Null, ret |-> cache[k]]
              /\ UNCHANGED <<cache, expiryTimes, lastSet>>
         ELSE /\ missCount' = missCount + 1
              /\ hitCount' = hitCount
              /\ last' = [op |-> "get", key |-> k, val |-> Null, ret |-> Null]
              /\ UNCHANGED <<cache, accessOrder, expiryTimes, lastSet>>
  /\ UNCHANGED now

\* set(key, value, ttl), evictLRU and delete included
Set(k, v, ttl) ==
  LET gone == IF MustEvict(cache, k) THEN EvictedKeys(accessOrder) ELSE {}
      c1 == [x \in DOMAIN cache \ gone |-> cache[x]]
      a1 == SelectSeq(accessOrder, LAMBDA e : e.key \notin gone)
      e1 == [x \in DOMAIN expiryTimes \ gone |-> expiryTimes[x]]
      l1 == [x \in DOMAIN lastSet \ gone |-> lastSet[x]]
  IN
  /\ cache' = FnSet(c1, k, v)
  /\ accessOrder' = MapSet(a1, k, now)
  /\ expiryTimes' = FnSet(e1, k, now + ActualTTL(ttl))
  /\ lastSet' = FnSet(l1, k, [at |-> now, ttl |-> ttl])
  /\ last' = [op |-> "set", key |-> k, val |-> v, ret |-> Null]
  /\ UNCHANGED <<hitCount, missCount, now, getCalls>>

\* delete(key)
Delete(k) ==
  /\ cache' = FnDelete(cache, k)
  /\ accessOrder' = MapDelete(accessOrder, k)
  /\ expiryTimes' = FnDelete(expiryTimes, k)
  /\ lastSet' = FnDelete(lastSet, k)
  /\ last' = [op |-> "delete", key |-> k, val |-> Null, ret |-> Null]
  /\ UNCHANGED <<hitCount, missCount, now, getCalls>>

\* clear()
Clear ==
  /\ cache' = EmptyFn
  /\ accessOrder' = <<>>
  /\ expiryTimes' = EmptyFn
  /\ hitCount' = 0
  /\ missCount' = 0
  /\ getCalls' = 0
  /\ lastSet' = EmptyFn
  /\ last' = [op |-> "clear", key |-> "", val |-> Null, ret |-> Null]
  /\ UNCHANGED now
  /\ UNCHANGED NotCache

\* calls with any key, the default ttl and one value: the eviction runs
GetAny == \E k \in Keys : Get(k) /\ UNCHANGED NotCache
SetAny == \E k \in Keys : Set(k, "v1", JsNull) /\ UNCHANGED NotCache
DeleteAny == \E k \in Keys : Delete(k) /\ UNCHANGED NotCache

NextCache ==
  \/ Tick
  \/ GetAny
  \/ SetAny
  \/ DeleteAny
  \/ Clear

\* calls with any value and any ttl argument: the expiry runs
GetTtl == \E k \in TtlKeys : Get(k) /\ UNCHANGED NotCache
SetTtl ==
  \E k \in TtlKeys, v \in Values, ttl \in TtlArgs :
    Set(k, v, ttl) /\ UNCHANGED NotCache
DeleteTtl == \E k \in TtlKeys : Delete(k) /\ UNCHANGED NotCache

NextCacheTtl ==
  \/ Tick
  \/ GetTtl
  \/ SetTtl
  \/ DeleteTtl
  \/ Clear

(***************************************************************************)
(* BloomFilter                                                             *)
(***************************************************************************)
\* JavaScript numbers: a finite integer, NaN or an infinity
NaN == [kind |-> "NaN"]
PosInf == [kind |-> "+Infinity"]
NegInf == [kind |-> "-Infinity"]
Fin(v) == [kind |-> "finite", v |-> v]

\* Math.ceil(a / b) for integers a, b with b # 0
CeilDiv(a, b) == IF b > 0 THEN -((-a) \div b) ELSE -(a \div (-b))

\* Math.log(2) ** 2 and Math.log(2), in millionths
Ln2SqMicro == 480453
Ln2Micro == 693147

\* constructor arguments: expectedItems, and falsePositiveRate in thousandths
ExpectedItemsArgs == {-1, 0, 1, 2}
RateArgs == {-500, 0, 100, 500, 1000, 2000}

\* Math.log(p) in millionths for a rate p > 0 given in thousandths
LnMicro(p) ==
  CASE p = 100 -> -2302585
    [] p = 500 -> -693147
    [] p = 1000 -> 0
    [] p = 2000 -> 693147

\* Math.ceil(-expectedItems * Math.log(falsePositiveRate) / (Math.log(2) ** 2))
BitArraySize(n, p) ==
  IF p < 0 THEN NaN
  ELSE IF p = 0
    THEN (IF n > 0 THEN PosInf ELSE IF n < 0 THEN NegInf ELSE NaN)
    ELSE Fin(CeilDiv(-n * LnMicro(p), Ln2SqMicro))

\* Math.ceil(this.bitArraySize * Math.log(2) / expectedItems)
HashFunctions(m, n) ==
  IF m.kind = "NaN" THEN NaN
  ELSE IF m.kind = "+Infinity" THEN (IF n >= 0 THEN PosInf ELSE NegInf)
  ELSE IF m.kind = "-Infinity" THEN (IF n >= 0 THEN NegInf ELSE PosInf)
  ELSE IF n = 0
    THEN (IF m.v = 0 THEN NaN ELSE IF m.v > 0 THEN PosInf ELSE NegInf)
    ELSE Fin(CeilDiv(m.v * Ln2Micro, n * 1000000))

\* new Uint8Array(Math.ceil(this.bitArraySize / 8)): the length, or "RangeError"
Uint8ArrayLength(m) ==
  IF m.kind = "NaN" THEN Fin(0)
  ELSE IF m.kind # "finite" THEN [kind |-> "RangeError"]
  ELSE IF CeilDiv(m.v, 8) < 0 THEN [kind |-> "RangeError"]
  ELSE Fin(CeilDiv(m.v, 8))

\* items are strings, given by their char codes; the third hashes to a
\* negative 32-bit value
Items == {<<97>>, <<97, 98>>, <<122, 122, 122, 122, 122, 122>>}

\* a 32-bit integer is a pair <<high 16 bits, low 16 bits>>
Half == 65536
\* `((hash << 5) - hash + str.charCodeAt(i)) & 0xffffffff`: 31 * hash + c mod 2^32
HashStep(h, c) ==
  LET lo == h[2] * 31 + c
  IN <<(h[1] * 31 + lo \div Half) % Half, lo % Half>>

RECURSIVE HashLoop(_, _, _)
HashLoop(str, i, h) ==
  IF i > Len(str) THEN h ELSE HashLoop(str, i + 1, HashStep(h, str[i]))

\* Math.abs of the signed value of a 32-bit pair, again as a pair
Abs32(h) ==
  IF h[1] < 32768 THEN h
  ELSE IF h[2] = 0 THEN <<(Half - h[1]) % Half, 0>>
  ELSE <<Half - 1 - h[1], Half - h[2]>>

\* x % m for a non-negative pair x and an integer m # 0 (the sign of the
\* result of % is the sign of x)
Mod32(h, m) ==
  LET d == IF m < 0 THEN -m ELSE m
  IN (((h[1] % d) * (Half % d)) + h[2]) % d

\* hash(item, seed): Math.abs(hash) % this.bitArraySize, bitArraySize # 0
Hash(item, seed, m) == Mod32(Abs32(HashLoop(item, 1, <<0, seed>>)), m)

\* the values i of `for (let i = 0; i < this.hashFunctions; i++)`
Seeds(k) == IF k.kind = "finite" THEN 0..(k.v - 1) ELSE {}

\* the bit indices add writes, as far as they lie inside the byte array
\* (a typed array ignores a write outside it or at index NaN)
AddedBitsSkippingSeedZero(f, item) ==
  IF f.bitArraySize.kind # "finite" \/ f.bitArraySize.v = 0 THEN {}
  ELSE {b \in {Hash(item, i, f.bitArraySize.v) : i \in Seeds(f.hashFunctions) \ {0}} :
          b \in 0..(8 * f.length - 1)}
AddedBits(f, item) ==
  IF f.bitArraySize.kind # "finite" \/ f.bitArraySize.v = 0 THEN {}
  ELSE {b \in {Hash(item, i, f.bitArraySize.v) : i \in Seeds(f.hashFunctions)} :
          b \in 0..(8 * f.length - 1)}

\* contains(item): false as soon as one read gives a clear bit; a read outside
\* the byte array or at index NaN gives undefined, and undefined & x is 0
ContainsResult(f, item) ==
  \A i \in Seeds(f.hashFunctions) :
    /\ f.bitArraySize.kind = "finite"
    /\ f.bitArraySize.v # 0
    /\ Hash(item, i, f.bitArraySize.v) \in f.bits

NoBfCall == [op |-> "none", item |-> <<>>, ret |-> FALSE]

InitBloom ==
  /\ bf = [state |-> "none"]
  /\ added = {}
  /\ bfLast = NoBfCall

\* new BloomFilter(expectedItems, falsePositiveRate)
Construct(n, p) ==
  LET m == BitArraySize(n, p)
      k == HashFunctions(m, n)
      len == Uint8ArrayLength(m)
  IN
  /\ bf.state = "none"
  /\ bf' = IF len.kind = "RangeError"
             THEN [state |-> "threw", expectedItems |-> n, falsePositiveRate |-> p]
             ELSE [state |-> "ready", expectedItems |-> n, falsePositiveRate |-> p,
                   bitArraySize |-> m, hashFunctions |-> k, length |-> len.v,
                   bits |-> {}, itemCount |-> 0]
  /\ bfLast' = [op |-> "new", item |-> <<>>, ret |-> FALSE]
  /\ UNCHANGED added
  /\ UNCHANGED NotBloom

\* add(item)
Add(item) ==
  /\ bf.state = "ready"
  /\ bf.itemCount < MaxAdds
  /\ bf' = [bf EXCEPT !.bits = @ \cup AddedBits(bf, item), !.itemCount = @ + 1]
  /\ added' = added \cup {item}
  /\ bfLast' = [op |-> "add", item |-> item, ret |-> FALSE]
  /\ UNCHANGED NotBloom

\* contains(item)
Contains(item) ==
  /\ bf.state = "ready"
  /\ bfLast' = [op |-> "contains", item |-> item, ret |-> ContainsResult(bf, item)]
  /\ UNCHANGED <<bf, added>>
  /\ UNCHANGED NotBloom

ConstructAny == \E n \in ExpectedItemsArgs, p \in RateArgs : Construct(n, p)
AddAny == \E x \in Items : Add(x)
ContainsAny == \E x \in Items : Contains(x)

NextBloom ==
  \/ ConstructAny
  \/ AddAny
  \/ ContainsAny

(***************************************************************************)
(* Trie                                                                    *)
(***************************************************************************)
\* words are sequences of characters
Words == {<<"a">>, <<"A">>, <<"a", "b">>, <<"b">>}
Prefixes == {<<>>, <<"a">>, <<"A">>, <<"b">>}
Payloads == {"p1", "p2"}

\* String.prototype.toLowerCase
ToLowerChar(c) == CASE c = "A" -> "a" [] c = "B" -> "b" [] OTHER -> c
toLowerCase(word) == [i \in 1..Len(word) |-> ToLowerChar(word[i])]

Range(f) == {f[i] : i \in DOMAIN f}

\* new TrieNode()
TrieNode == [children |-> <<>>, isEndOfWord |-> FALSE, data |-> Null, frequency |-> 0]

\* the loop of insert: walks the characters of w from the i-th on, creating
\* the child nodes that are missing
RECURSIVE InsertWalk(_, _, _)
InsertWalk(t, w, i) ==
  IF i > Len(w) THEN t
  ELSE LET parent == SubSeq(w, 1, i - 1)
           child == SubSeq(w, 1, i)
       IN IF w[i] \in Range(t[parent].children)
            THEN InsertWalk(t, w, i + 1)
            ELSE InsertWalk(
                   [x \in DOMAIN t \cup {child} |->
                      IF x = child THEN TrieNode
                      ELSE IF x = parent
                        THEN [t[x] EXCEPT !.children = Append(@, w[i])]
                        ELSE t[x]],
                   w, i + 1)

\* the end of insert: `isEndOfWord = true; node.data = data; node.frequency++`
EndOfInsertFrequencyOne(node, data) ==
  [node EXCEPT !.isEndOfWord = TRUE, !.data = data, !.frequency = 1]
EndOfInsert(node, data) ==
  [node EXCEPT !.isEndOfWord = TRUE, !.data = data, !.frequency = @ + 1]

\* searchNode(word): <<path>> of the node reached, <<>> for null
RECURSIVE SearchWalk(_, _, _)
SearchWalk(t, w, i) ==
  IF i > Len(w) THEN <<w>>
  ELSE IF w[i] \notin Range(t[SubSeq(w, 1, i - 1)].children) THEN <<>>
  ELSE SearchWalk(t, w, i + 1)

searchNode(t, word) == SearchWalk(t, toLowerCase(word), 1)

\* search(word)
search(t, word) ==
  LET node == searchNode(t, word)
  IN IF node # <<>> /\ t[node[1]].isEndOfWord THEN t[node[1]].data ELSE Null

\* dfsCollectWords(node, currentWord, results, limit); the children are
\* visited in the insertion order of the Map
RECURSIVE dfsCollectWords(_, _, _, _, _)
RECURSIVE DfsChildren(_, _, _, _, _, _)
dfsCollectWords(t, node, currentWord, results, limit) ==
  IF Len(results) >= limit THEN results
  ELSE LET r1 == IF t[node].isEndOfWord
                   THEN Append(results, [word |-> currentWord,
                                         data |-> t[node].data,
                                         frequency |-> t[node].frequency])
                   ELSE results
       IN DfsChildren(t, node, currentWord, 1, r1, limit)

DfsChildren(t, node, currentWord, i, results, limit) ==
  IF i > Len(t[node].children) THEN results
  ELSE LET char == t[node].children[i]
           r1 == IF Len(results) < limit
                   THEN dfsCollectWords(t, Append(node, char),
                                        Append(currentWord, char), results, limit)
                   ELSE results
       IN DfsChildren(t, node, currentWord, i + 1, r1, limit)

\* Array.prototype.sort((a, b) => b.frequency - a.frequency): a stable sort
RECURSIVE InsertSorted(_, _)
InsertSorted(sorted, e) ==
  IF sorted = <<>> THEN <<e>>
  ELSE IF Head(sorted).frequency >= e.frequency
    THEN <<Head(sorted)>> \o InsertSorted(Tail(sorted), e)
    ELSE <<e>> \o sorted

RECURSIVE SortByFrequency(_, _)
SortByFrequency(results, i) ==
  IF i = 0 THEN <<>>
  ELSE InsertSorted(SortByFrequency(results, i - 1), results[i])

\* startsWith(prefix, limit)
startsWith(t, prefix, limit) ==
  LET node == searchNode(t, prefix)
  IN IF node = <<>> THEN <<>>
     ELSE LET results == dfsCollectWords(t, node[1], toLowerCase(prefix), <<>>, limit)
          IN SortByFrequency(results, Len(results))

NoTrieCall == [op |-> "none", word |-> <<>>, limit |-> 0, ret |-> Null, results |-> <<>>]

InitTrie ==
  /\ trie = [x \in {<<>>} |-> TrieNode]
  /\ wordCount = 0
  /\ inserts = <<>>
  /\ trieLast = NoTrieCall

\* insert(word, data)
Insert(word, data) ==
  LET w == toLowerCase(word)
      t1 == InsertWalk(trie, w, 1)
  IN
  /\ Len(inserts) < MaxInserts
  /\ trie' = [t1 EXCEPT ![w] = EndOfInsert(@, data)]
  /\ wordCount' = IF t1[w].isEndOfWord THEN wordCount ELSE wordCount + 1
  /\ inserts' = Append(inserts, [word |-> word, data |-> data])
  /\ trieLast' = [NoTrieCall EXCEPT !.op = "insert", !.word = word]
  /\ UNCHANGED NotTrie

\* search(word)
Search(word) ==
  /\ trieLast' = [NoTrieCall EXCEPT !.op = "search", !.word = word,
                                    !.ret = search(trie, word)]
  /\ UNCHANGED <<trie, wordCount, inserts>>
  /\ UNCHANGED NotTrie

\* startsWith(prefix, limit)
StartsWith(prefix, limit) ==
  /\ trieLast' = [NoTrieCall EXCEPT !.op = "startsWith", !.word = prefix,
                                    !.limit = limit,
                                    !.results = startsWith(trie, prefix, limit)]
  /\ UNCHANGED <<trie, wordCount, inserts>>
  /\ UNCHANGED NotTrie

InsertAny == \E w \in Words, d \in Payloads : Insert(w, d)
SearchAny == \E w \in Words : Search(w)
StartsWithAny == \E pre \in Prefixes, limit \in 1..MaxLimit : StartsWith(pre, limit)

NextTrie ==
  \/ InsertAny
  \/ SearchAny
  \/ StartsWithAny

(***************************************************************************)
(* PerformanceEngine                                                       *)
(*                                                                         *)
(* The backing store is the directory data/entries: one JSON file per      *)
(* date, written by the journal with `date` equal to the file name.  A     *)
(* date is a day number; the engine reaches the store at fs.pathExists,    *)
(* fs.readdir and fs.readJson.  The cache of the engine holds 2000         *)
(* entries, far more than the keys of the model, so its eviction never     *)
(* runs and its access order is left out.                                  *)
(***************************************************************************)
\* the dates of the model: two adjacent days and one more than 30 days later
Dates == {1, 2, 40}
\* the dates of the runs that fetch single entries
EntryDates == {1, 2}
\* the callers that may have a call pending at the same time
Tasks == {1, 2}
\* the startDate and endDate of the ranges fetched: two adjacent days, a range
\* of more than 30 days, and a range that ends before it starts
RangeArgs == {<<1, 2>>, <<2, 40>>, <<2, 1>>}
\* the limit arguments of the ranges fetched
Limits == {1, 2}

\* moment(...).format('YYYY-MM-DD') by char codes: 2024-01-01, 2024-01-02
\* and 2024-02-09
DateChars(d) ==
  CASE d = 1 -> <<50, 48, 50, 52, 45, 48, 49, 45, 48, 49>>
    [] d = 2 -> <<50, 48, 50, 52, 45, 48, 49, 45, 48, 50>>
    [] d = 40 -> <<50, 48, 50, 52, 45, 48, 50, 45, 48, 57>>

\* the technologies of the one journal entry of the file of a date
Technologies(d) ==
  CASE d = 1 -> << <<"a">> >>
    [] d = 2 -> << <<"b">> >>
    [] d = 40 -> << <<"a">> >>

\* entry.message.toLowerCase().split(/\s+/) of that journal entry
MessageWords(d) ==
  CASE d = 1 -> << <<"a", "b", "a">>, <<"b">> >>
    [] d = 2 -> << <<"a", "b">> >>
    [] d = 40 -> << <<"b", "a", "b">> >>

\* the content of data/entries/<d>.json
EntryFile(d) ==
  [date |-> d,
   entries |-> <<[technologies |-> Technologies(d), message |-> MessageWords(d)]>>]

\* the ttl arguments the engine passes to cache.set, in units of 300000 ms
EntryTTL == 2
ExistsTTL == 1
RangeTTL == 1

\* JavaScript values the engine passes around, tagged with their type
NullRet == [kind |-> "null"]
EntryRet(e) == [kind |-> "entry", entry |-> e]
BoolRet(b) == [kind |-> "boolean", b |-> b]
ListRet(es) == [kind |-> "entries", list |-> es]

\* the cache keys `entry_${date}`, `entry_exists_${date}` and
\* `range_${startDate}_${endDate}_${limit}`
EntryKey(d) == <<"entry", d>>
ExistsKey(d) == <<"entry_exists", d>>
RangeKey(s, e, limit) == <<"range", s, e, limit>>

\* new AdvancedLRUCache(2000, 600000)
CacheNew ==
  [cache |-> EmptyFn, expiryTimes |-> EmptyFn, hitCount |-> 0, missCount |-> 0]

\* cache.get(key): the value returned
CacheGetValue(c, k, t) ==
  IF k \in DOMAIN c.cache /\ ~IsExpired(c.expiryTimes, k, t)
    THEN c.cache[k] ELSE NullRet

\* cache.get(key): the cache afterwards
CacheGet(c, k, t) ==
  IF IsExpired(c.expiryTimes, k, t)
    THEN [c EXCEPT !.cache = FnDelete(@, k),
                   !.expiryTimes = FnDelete(@, k),
                   !.missCount = MissCountAfterExpiry(@)]
  ELSE IF k \in DOMAIN c.cache
    THEN [c EXCEPT !.hitCount = @ + 1]
    ELSE [c EXCEPT !.missCount = @ + 1]

\* cache.set(key, value, ttl) with a ttl that is not 0
CacheSet(c, k, v, ttl, t) ==
  [c EXCEPT !.cache = FnSet(@, k, v), !.expiryTimes = FnSet(@, k, t + ttl)]

\* new BloomFilter(50000, 0.001): 718880 bits, 10 hash functions, 89860 bytes
FilterNew ==
  [state |-> "ready", expectedItems |-> 50000, falsePositiveRate |-> 1,
   bitArraySize |-> Fin(718880), hashFunctions |-> Fin(10), length |-> 89860,
   bits |-> {}, itemCount |-> 0]

\* the loop of buildBloomFilter: existsFilter.add(date) for every file
FilterAddAll(f, files) ==
  [f EXCEPT !.bits = @ \cup UNION {AddedBits(f, DateChars(d)) : d \in files},
            !.itemCount = @ + Cardinality(files)]

\* `this.existsFilter.contains(date)` of entryExists
MightExistAlways(f, d) == TRUE
MightExist(f, d) == ContainsResult(f, DateChars(d))

\* new Trie()
TrieNew == [nodes |-> [x \in {<<>>} |-> TrieNode], wordCount |-> 0]

\* searchTrie.insert(word, data)
TrieInsert(tr, word, data) ==
  LET w == toLowerCase(word)
      t1 == InsertWalk(tr.nodes, w, 1)
  IN [nodes |-> [t1 EXCEPT ![w] = EndOfInsert(@, data)],
      wordCount |-> IF t1[w].isEndOfWord THEN tr.wordCount ELSE tr.wordCount + 1]

RECURSIVE TrieInsertAll(_, _, _)
TrieInsertAll(tr, tokens, i) ==
  IF i > Len(tokens) THEN tr
  ELSE TrieInsertAll(TrieInsert(tr, tokens[i].word, tokens[i].data), tokens, i + 1)

\* the technologies of one journal entry, as insert calls
TechnologyTokens(sub, date) ==
  [i \in 1..Len(sub.technologies) |->
     [word |-> sub.technologies[i], data |-> [type |-> "technology", date |-> date]]]

\* `words.slice(0, 3)` and `word.length > 2` of buildSearchIndex, as insert calls
KeywordTokens(sub, date) ==
  LET first == SubSeq(sub.message, 1, IF Len(sub.message) < 3 THEN Len(sub.message) ELSE 3)
      long == SelectSeq(first, LAMBDA w : Len(w) > 2)
  IN [i \in 1..Len(long) |->
        [word |-> long[i], data |-> [type |-> "keyword", date |-> date]]]

\* the insert calls buildSearchIndex makes for one file
RECURSIVE WarmUpTokens(_, _)
WarmUpTokens(file, i) ==
  IF i > Len(file.entries) THEN <<>>
  ELSE TechnologyTokens(file.entries[i], file.date)
         \o KeywordTokens(file.entries[i], file.date)
         \o WarmUpTokens(file, i + 1)

\* the insert calls updateSearchIndex(entry) makes
RECURSIVE UpdateTokens(_, _)
UpdateTokens(entry, i) ==
  IF i > Len(entry.entries) THEN <<>>
  ELSE TechnologyTokens(entry.entries[i], entry.date) \o UpdateTokens(entry, i + 1)

\* fs.readdir lists the files by name
RECURSIVE Ascending(_)
Ascending(S) ==
  IF S = {} THEN <<>>
  ELSE LET m == CHOOSE x \in S : \A y \in S : x <= y
       IN <<m>> \o Ascending(S \ {m})

\* the loop of buildSearchIndex over the files that could be read
RECURSIVE IndexFiles(_, _, _)
IndexFiles(tr, dates, i) ==
  IF i > Len(dates) THEN tr
  ELSE IndexFiles(TrieInsertAll(tr, WarmUpTokens(EntryFile(dates[i]), 1), 1),
                  dates, i + 1)

\* `end.diff(start, 'days') > 30` of getEntriesInRange
UseBatch(s, e) == e - s > 30

\* `a.date.localeCompare(b.date)` of getBatchEntries: negative, 0 or positive
LocaleCompareReversed(a, b) == IF a < b THEN 1 ELSE IF a = b THEN 0 ELSE -1
LocaleCompare(a, b) == IF a < b THEN -1 ELSE IF a = b THEN 0 ELSE 1

\* entries.sort((a, b) => a.date.localeCompare(b.date)): a stable sort
RECURSIVE InsertByDate(_, _)
InsertByDate(sorted, e) ==
  IF sorted = <<>> THEN <<e>>
  ELSE IF LocaleCompare(Head(sorted).date, e.date) <= 0
    THEN <<Head(sorted)>> \o InsertByDate(Tail(sorted), e)
    ELSE <<e>> \o sorted

RECURSIVE SortByDate(_, _)
SortByDate(entries, i) ==
  IF i = 0 THEN <<>>
  ELSE InsertByDate(SortByDate(entries, i - 1), entries[i])

\* a caller without a call.  Of a call, `entries` is the local of that name,
\* `date` the argument of the getEntry in progress; `visited` lists the
\* getEntry calls a range has awaited and what they returned, `cached` tells
\* that the result came out of the cache, `io` counts the answers of
\* fs.pathExists and fs.readJson, `failed` those of them that were errors;
\* `semaphore` is the set of indices of the array of that name in
\* getBatchEntries that hold 1, `slotIndex` the slot of the lookup in progress
Idle ==
  [pc |-> "idle", op |-> "none", date |-> 0, start |-> 0, end |-> 0, limit |-> 0,
   entries |-> <<>>, visited |-> <<>>, ret |-> NullRet, cached |-> FALSE, io |-> 0,
   failed |-> 0, semaphore |-> {}, slotIndex |-> -1]

InitEngine ==
  /\ entryFiles = {}
  /\ initState = "none"
  /\ initStarts = 0
  /\ existsFilter = FilterNew
  /\ pCache = CacheNew
  /\ searchTrie = TrieNew
  /\ queryCount = 0
  /\ clock = 1
  /\ tasks = [t \in Tasks |-> Idle]
  /\ calls = 0
  /\ readFailures = 0
  /\ returned = EmptyFn

\* the journal writes the file of a date
StorePut(d) ==
  /\ d \notin entryFiles
  /\ entryFiles' = entryFiles \cup {d}
  /\ UNCHANGED <<initState, initStarts, existsFilter, pCache, searchTrie, queryCount, clock,
                 tasks, calls, readFailures, returned>>
  /\ UNCHANGED NotEngine

\* the file of a date is removed
StoreRemove(d) ==
  /\ d \in entryFiles
  /\ entryFiles' = entryFiles \ {d}
  /\ UNCHANGED <<initState, initStarts, existsFilter, pCache, searchTrie, queryCount, clock,
                 tasks, calls, readFailures, returned>>
  /\ UNCHANGED NotEngine

\* Date.now() advances
EngineTick ==
  /\ clock < MaxClock
  /\ clock' = clock + 1
  /\ UNCHANGED <<entryFiles, initState, initStarts, existsFilter, pCache, searchTrie,
                 queryCount, tasks, calls, readFailures, returned>>
  /\ UNCHANGED NotEngine

\* initialize() goes on to performInitialization when neither `initialized`
\* nor `initPromise` is set
StartsInitUnlessInitialized(state) == state # "done"
StartsInit(state) == state = "none"

\* a call begins: it runs up to `await this.initialize()`, and the first call
\* starts performInitialization, which runs up to the await of fs.pathExists
\* in buildBloomFilter
Begin(t, call) ==
  /\ tasks[t].pc = "idle"
  /\ calls < MaxCalls
  /\ calls' = calls + 1
  /\ tasks' = [tasks EXCEPT ![t] = call]
  /\ initState' = IF StartsInit(initState) THEN "bloom" ELSE initState
  /\ initStarts' = IF StartsInit(initState) THEN initStarts + 1 ELSE initStarts
  /\ UNCHANGED <<entryFiles, existsFilter, pCache, searchTrie, queryCount, clock,
                 readFailures, returned>>
  /\ UNCHANGED NotEngine

\* getEntry(date) is called
GetEntry(t, d) ==
  Begin(t, [Idle EXCEPT !.pc = "getEntry_initialize", !.op = "getEntry", !.date = d])

\* initialize() is called
Initialize(t) ==
  Begin(t, [Idle EXCEPT !.pc = "initialize", !.op = "initialize"])

\* entryExists(date) is called
EntryExists(t, d) ==
  Begin(t, [Idle EXCEPT !.pc = "entryExists_initialize", !.op = "entryExists",
                        !.date = d])

\* getEntriesInRange(startDate, endDate, limit) is called
GetEntriesInRange(t, s, e, limit) ==
  Begin(t, [Idle EXCEPT !.pc = "getEntriesInRange_initialize",
                        !.op = "getEntriesInRange",
                        !.start = s, !.end = e, !.limit = limit])

\* buildBloomFilter: fs.readdir answers and every file name is added
BuildBloomFilter ==
  /\ initState = "bloom"
  /\ existsFilter' = FilterAddAll(existsFilter, entryFiles)
  /\ initState' = "index"
  /\ UNCHANGED <<entryFiles, initStarts, pCache, searchTrie, queryCount, clock, tasks, calls,
                 readFailures, returned>>
  /\ UNCHANGED NotEngine

\* buildSearchIndex: fs.readdir answers and every file is read; the files
\* whose read fails are skipped.  performInitialization returns and
\* initialize sets `initialized`
BuildSearchIndex(unreadable) ==
  /\ initState = "index"
  /\ searchTrie' = IndexFiles(searchTrie, Ascending(entryFiles \ unreadable), 1)
  /\ initState' = "done"
  /\ UNCHANGED <<entryFiles, initStarts, existsFilter, pCache, queryCount, clock, tasks,
                 calls, readFailures, returned>>
  /\ UNCHANGED NotEngine

\* `new Array(10).fill(0)` of getBatchEntries: the number of slots
PoolSize == 10

\* `semaphore.indexOf(0)`: the first free slot, -1 when every slot is taken
FreeIndex(semaphore) ==
  LET free == (0..(PoolSize - 1)) \ semaphore
  IN IF free = {} THEN -1 ELSE CHOOSE i \in free : \A j \in free : i <= j

\* `semaphore[slotIndex] = 0` in the finally block of getBatchEntries
SemaphoreKept(semaphore, slotIndex) == semaphore
SemaphoreReleased(semaphore, slotIndex) == semaphore \ {slotIndex}

\* `entries.length < limit` of the loops of getEntriesInRange and getBatchEntries
GoesOnAtLimit(entries, limit) == Len(entries) <= limit
GoesOn(entries, limit) == Len(entries) < limit

\* `this.cache.set(cacheKey, entries, 300000)` of getEntriesInRange
CacheAfterRangeNotStored(c, key, entries, t) == c
CacheAfterRange(c, key, entries, t) == CacheSet(c, key, ListRet(entries), RangeTTL, t)

\* the loop of getEntriesInRange and of getBatchEntries from the day cur on,
\* up to the await of the next getEntry or, when the loop ends, to the return
\* of getEntriesInRange.  getBatchEntries awaits each getEntry before it goes
\* on to the next day, so one slot of its semaphore is taken at a time; with
\* no slot free checkSlot would poll for ever, no lookup being in flight to
\* free one.  A day that is no date of the model has no file: its getEntry
\* misses the cache, is answered by the filter and counts one query.
RangeLoop(t, tk, cur, c, tr, q, rf) ==
  LET more == {d \in Dates : cur <= d /\ d <= tk.end}
      goesOn == GoesOn(tk.entries, tk.limit)
  IN
  IF goesOn /\ more # {}
    THEN LET d == CHOOSE x \in more : \A y \in more : x <= y
             skipped == d - cur
             batch == UseBatch(tk.start, tk.end)
             freeIndex == FreeIndex(tk.semaphore)
         IN /\ tasks' = [tasks EXCEPT ![t] =
                           IF ~batch
                             THEN [tk EXCEPT !.pc = "getEntry_initialize", !.date = d]
                           ELSE IF freeIndex = -1
                             THEN [tk EXCEPT !.pc = "checkSlot", !.date = d]
                             ELSE [tk EXCEPT !.pc = "getEntry_initialize", !.date = d,
                                             !.semaphore = @ \cup {freeIndex},
                                             !.slotIndex = freeIndex]]
            /\ pCache' = [c EXCEPT !.missCount = @ + skipped]
            /\ searchTrie' = tr
            /\ queryCount' = q + skipped
            /\ readFailures' = rf
            /\ UNCHANGED returned
    ELSE LET skipped == IF goesOn /\ cur <= tk.end THEN tk.end - cur + 1 ELSE 0
             entries == IF UseBatch(tk.start, tk.end)
                          THEN SortByDate(tk.entries, Len(tk.entries))
                          ELSE tk.entries
             key == RangeKey(tk.start, tk.end, tk.limit)
         IN /\ tasks' = [tasks EXCEPT ![t] =
                           [tk EXCEPT !.pc = "idle", !.ret = ListRet(entries)]]
            /\ pCache' = CacheAfterRange([c EXCEPT !.missCount = @ + skipped], key,
                                       entries, clock)
            /\ searchTrie' = tr
            /\ queryCount' = q + skipped + 1
            /\ readFailures' = rf
            /\ returned' = FnSet(returned, key, [ret |-> ListRet(entries), at |-> clock])

\* getEntry returns: recordQuery, and the caller goes on
GetEntryReturn(t, tk, ret, cached, c, tr, rf) ==
  IF tk.op = "getEntry"
    THEN /\ tasks' = [tasks EXCEPT ![t] =
                        [tk EXCEPT !.pc = "idle", !.ret = ret, !.cached = cached]]
         /\ pCache' = c
         /\ searchTrie' = tr
         /\ queryCount' = queryCount + 1
         /\ readFailures' = rf
         /\ returned' = IF cached THEN returned
                        ELSE FnSet(returned, EntryKey(tk.date),
                                   [ret |-> ret, at |-> clock])
    ELSE RangeLoop(t,
                   [tk EXCEPT !.entries = IF ret.kind = "entry"
                                            THEN Append(@, ret.entry) ELSE @,
                              !.visited = Append(@, [date |-> tk.date, ret |-> ret]),
                              !.semaphore = IF UseBatch(tk.start, tk.end)
                                              THEN SemaphoreReleased(@, tk.slotIndex)
                                              ELSE @],
                   tk.date + 1, c, tr, queryCount + 1, rf)

\* entryExists returns
EntryExistsReturn(t, tk, exists, c) ==
  IF tk.op = "entryExists"
    THEN /\ tasks' = [tasks EXCEPT ![t] =
                        [tk EXCEPT !.pc = "idle", !.ret = BoolRet(exists)]]
         /\ pCache' = c
         /\ UNCHANGED <<searchTrie, queryCount, readFailures, returned>>
  ELSE IF ~exists
    THEN GetEntryReturn(t, tk, NullRet, FALSE, c, searchTrie, readFailures)
    ELSE /\ tasks' = [tasks EXCEPT ![t] = [tk EXCEPT !.pc = "readJson"]]
         /\ pCache' = c
         /\ UNCHANGED <<searchTrie, queryCount, readFailures, returned>>

\* getEntry after `await this.initialize()`: the cache is asked, and on a
\* miss entryExists is called and runs up to its `await this.initialize()`
GetEntryResume(t) ==
  LET tk == tasks[t]
      key == EntryKey(tk.date)
      entry == CacheGetValue(pCache, key, clock)
      c == CacheGet(pCache, key, clock)
  IN
  /\ tk.pc = "getEntry_initialize"
  /\ initState = "done"
  /\ IF entry.kind # "null"
       THEN GetEntryReturn(t, tk, entry, TRUE, c, searchTrie, readFailures)
       ELSE /\ tasks' = [tasks EXCEPT ![t] = [tk EXCEPT !.pc = "entryExists_initialize"]]
            /\ pCache' = c
            /\ UNCHANGED <<searchTrie, queryCount, readFailures, returned>>
  /\ UNCHANGED <<entryFiles, initState, initStarts, existsFilter, clock, calls>>
  /\ UNCHANGED NotEngine

\* entryExists after `await this.initialize()`: the filter and the cache are
\* asked, and on a miss fs.pathExists is awaited
EntryExistsResume(t) ==
  LET tk == tasks[t]
      key == ExistsKey(tk.date)
      exists == CacheGetValue(pCache, key, clock)
      c == CacheGet(pCache, key, clock)
  IN
  /\ tk.pc = "entryExists_initialize"
  /\ initState = "done"
  /\ IF ~MightExist(existsFilter, tk.date)
       THEN EntryExistsReturn(t, tk, FALSE, pCache)
     ELSE IF exists.kind # "null"
       THEN EntryExistsReturn(t, tk, exists.b, c)
       ELSE /\ tasks' = [tasks EXCEPT ![t] = [tk EXCEPT !.pc = "pathExists"]]
            /\ pCache' = c
            /\ UNCHANGED <<searchTrie, queryCount, readFailures, returned>>
  /\ UNCHANGED <<entryFiles, initState, initStarts, existsFilter, clock, calls>>
  /\ UNCHANGED NotEngine

\* fs.pathExists answers: the answer is cached for five minutes
PathExistsDone(t) ==
  LET tk == [tasks[t] EXCEPT !.io = @ + 1]
      exists == tk.date \in entryFiles
  IN
  /\ tasks[t].pc = "pathExists"
  /\ EntryExistsReturn(t, tk, exists,
                       CacheSet(pCache, ExistsKey(tk.date), BoolRet(exists),
                                ExistsTTL, clock))
  /\ UNCHANGED <<entryFiles, initState, initStarts, existsFilter, clock, calls>>
  /\ UNCHANGED NotEngine

\* what cache.set and updateSearchIndex of getEntry leave after a read
CacheAfterReadEvenIfFailed(c, d, entry, t) ==
  CacheSet(c, EntryKey(d), entry, EntryTTL, t)
CacheAfterReadDropped(c, d, entry, t) ==
  [c EXCEPT !.cache = FnDelete(@, EntryKey(d)),
            !.expiryTimes = FnDelete(@, EntryKey(d))]
CacheAfterRead(c, d, entry, t) ==
  IF entry.kind = "entry" THEN CacheSet(c, EntryKey(d), entry, EntryTTL, t) ELSE c

TrieAfterRead(tr, entry) ==
  IF entry.kind = "entry" THEN TrieInsertAll(tr, UpdateTokens(entry.entry, 1), 1)
  ELSE tr

\* fs.readJson answers or throws; it throws when the file is gone and when
\* it cannot be read or parsed
ReadJsonDone(t) ==
  \E ok \in BOOLEAN :
    LET d == tasks[t].date
        read == ok /\ d \in entryFiles
        entry == IF read THEN EntryRet(EntryFile(d)) ELSE NullRet
        tk == [tasks[t] EXCEPT !.io = @ + 1,
                               !.failed = IF read THEN @ ELSE @ + 1]
    IN
    /\ tasks[t].pc = "readJson"
    /\ GetEntryReturn(t, tk, entry, FALSE,
                      CacheAfterRead(pCache, d, entry, clock),
                      TrieAfterRead(searchTrie, entry),
                      IF read THEN readFailures ELSE readFailures + 1)
    /\ UNCHANGED <<entryFiles, initState, initStarts, existsFilter, clock, calls>>
    /\ UNCHANGED NotEngine

\* getEntriesInRange after `await this.initialize()`: the cache is asked, and
\* on a miss the loop begins
GetEntriesInRangeResume(t) ==
  LET tk == tasks[t]
      key == RangeKey(tk.start, tk.end, tk.limit)
      entries == CacheGetValue(pCache, key, clock)
      c == CacheGet(pCache, key, clock)
  IN
  /\ tk.pc = "getEntriesInRange_initialize"
  /\ initState = "done"
  /\ IF entries.kind # "null"
       THEN /\ tasks' = [tasks EXCEPT ![t] =
                           [tk EXCEPT !.pc = "idle", !.ret = entries, !.cached = TRUE]]
            /\ pCache' = c
            /\ queryCount' = queryCount + 1
            /\ UNCHANGED <<searchTrie, readFailures, returned>>
       ELSE RangeLoop(t, tk, tk.start, c, searchTrie, queryCount, readFailures)
  /\ UNCHANGED <<entryFiles, initState, initStarts, existsFilter, clock, calls>>
  /\ UNCHANGED NotEngine

\* initialize() returns once performInitialization has returned
InitializeResume(t) ==
  /\ tasks[t].pc = "initialize"
  /\ initState = "done"
  /\ tasks' = [tasks EXCEPT ![t].pc = "idle"]
  /\ UNCHANGED <<entryFiles, initState, initStarts, existsFilter, pCache,
                 searchTrie, queryCount, clock, calls, readFailures, returned>>
  /\ UNCHANGED NotEngine

\* getPerformanceStats(): the counters it reports
Stats ==
  [queriesTotal |-> queryCount,
   cacheSize |-> Cardinality(DOMAIN pCache.cache),
   cacheHitCount |-> pCache.hitCount,
   cacheMissCount |-> pCache.missCount,
   bloomFilterActualItems |-> existsFilter.itemCount,
   searchIndexTerms |-> searchTrie.wordCount,
   metricsBufferSize |-> queryCount]

\* the steps every run of the engine takes
EngineSteps ==
  \/ BuildBloomFilter
  \/ \E t \in Tasks : GetEntryResume(t)
  \/ \E t \in Tasks : EntryExistsResume(t)
  \/ \E t \in Tasks : PathExistsDone(t)
  \/ \E t \in Tasks : ReadJsonDone(t)

\* Date.now() advances between two calls
TickBetweenCalls == (\A t \in Tasks : tasks[t].pc = "idle") /\ EngineTick

\* single entries fetched by one caller while the journal changes the store
StorePutEntry == \E d \in EntryDates : StorePut(d)
StoreRemoveEntry == \E d \in EntryDates : StoreRemove(d)
GetEntryAny == \E d \in EntryDates : GetEntry(1, d)
EntryExistsAny == \E d \in EntryDates : EntryExists(1, d)
BuildSearchIndexAny == \E unreadable \in SUBSET entryFiles : BuildSearchIndex(unreadable)

NextEngine ==
  \/ StorePutEntry
  \/ StoreRemoveEntry
  \/ TickBetweenCalls
  \/ GetEntryAny
  \/ EntryExistsAny
  \/ BuildSearchIndexAny
  \/ EngineSteps

\* ranges and entries fetched by one caller over a store that is filled before the
\* engine starts and whose files can all be read at warm-up
SeedStore == initState = "none" /\ \E d \in Dates : StorePut(d)
GetEntriesInRangeAny ==
  \E r \in RangeArgs, limit \in Limits : GetEntriesInRange(1, r[1], r[2], limit)
GetEntryOfRange == \E d \in Dates : GetEntry(1, d)
BuildSearchIndexAll == BuildSearchIndex({})
RangeResumeAny == \E t \in Tasks : GetEntriesInRangeResume(t)

NextRange ==
  \/ SeedStore
  \/ TickBetweenCalls
  \/ GetEntriesInRangeAny
  \/ GetEntryOfRange
  \/ BuildSearchIndexAll
  \/ RangeResumeAny
  \/ EngineSteps

\* calls of two callers that overlap, over a store that is filled before the
\* engine starts
GetEntryBy == \E t \in Tasks, d \in EntryDates : GetEntry(t, d)
EntryExistsBy == \E t \in Tasks, d \in EntryDates : EntryExists(t, d)
InitializeBy == \E t \in Tasks : Initialize(t)
GetEntriesInRangeBy == \E t \in Tasks : GetEntriesInRange(t, 1, 2, 2)
InitializeResumeAny == \E t \in Tasks : InitializeResume(t)

NextConcurrent ==
  \/ SeedStore
  \/ GetEntryBy
  \/ EntryExistsBy
  \/ InitializeBy
  \/ GetEntriesInRangeBy
  \/ BuildSearchIndexAll
  \/ InitializeResumeAny
  \/ RangeResumeAny
  \/ EngineSteps

(***************************************************************************)
(* RingBuffer (src/src/analytics.js).  The buffer is a function from the   *)
(* indices 0..size-1 to the item stored there; a slot never written holds  *)
(* undefined.                                                              *)
(***************************************************************************)
\* the size argument of the constructor
RingSizes == {1, 2, 3}
\* the items pushed
RingItems == {"x", "y"}
\* the n argument of getLatest
LatestArgs == 0..4
\* JavaScript undefined, the content of an array slot never written
Undefined == "undefined"

InitRing ==
  /\ rb = [state |-> "none"]
  /\ pushed = <<>>
  /\ rbLast = [op |-> "none"]

\* new RingBuffer(size)
RingConstruct(size) ==
  /\ rb.state = "none"
  /\ rb' = [state |-> "ready", size |-> size,
            buffer |-> [i \in 0..(size - 1) |-> Undefined],
            head |-> 0, tail |-> 0, count |-> 0]
  /\ rbLast' = [op |-> "new"]
  /\ UNCHANGED pushed
  /\ UNCHANGED NotRing

\* `this.head = (this.head + 1) % this.size` of push on a full buffer
HeadKept(r) == r.head
HeadMoved(r) == (r.head + 1) % r.size

\* push(item): the fields afterwards
RingPushed(r, item) ==
  [r EXCEPT !.buffer = [@ EXCEPT ![r.tail] = item],
            !.tail = (@ + 1) % r.size,
            !.count = IF r.count < r.size THEN @ + 1 ELSE @,
            !.head = IF r.count < r.size THEN @ ELSE HeadMoved(r)]

RingPush(item) ==
  /\ rb.state = "ready"
  /\ Len(pushed) < MaxPushes
  /\ rb' = RingPushed(rb, item)
  /\ pushed' = Append(pushed, item)
  /\ rbLast' = [op |-> "push"]
  /\ UNCHANGED NotRing

\* get(index)
RingGet(r, index) ==
  IF index >= r.count THEN Null ELSE r.buffer[(r.head + index) % r.size]

\* getLatest(n): the array returned
RingLatest(r, n) ==
  LET actualN == IF n < r.count THEN n ELSE r.count
  IN [k \in 1..actualN |-> r.buffer[(r.tail - 1 - (k - 1) + r.size) % r.size]]

\* toArray(): the array returned
RingArray(r) == [k \in 1..r.count |-> RingGet(r, k - 1)]

RingGetLatest(n) ==
  /\ rb.state = "ready"
  /\ rbLast' = [op |-> "getLatest", n |-> n, ret |-> RingLatest(rb, n)]
  /\ UNCHANGED <<rb, pushed>>
  /\ UNCHANGED NotRing

RingToArray ==
  /\ rb.state = "ready"
  /\ rbLast' = [op |-> "toArray", ret |-> RingArray(rb)]
  /\ UNCHANGED <<rb, pushed>>
  /\ UNCHANGED NotRing

\* clear()
RingClear ==
  /\ rb.state = "ready"
  /\ rb' = [rb EXCEPT !.head = 0, !.tail = 0, !.count = 0]
  /\ pushed' = <<>>
  /\ rbLast' = [op |-> "clear"]
  /\ UNCHANGED NotRing

RingConstructAny == \E size \in RingSizes : RingConstruct(size)
RingPushAny == \E item \in RingItems : RingPush(item)
RingGetLatestAny == \E n \in LatestArgs : RingGetLatest(n)

NextRing ==
  \/ RingConstructAny
  \/ RingPushAny
  \/ RingGetLatestAny
  \/ RingToArray
  \/ RingClear

(***************************************************************************)
(* PriorityQueue and MessageQueue (src/unnamed/part_002), without          *)
(* persistence, as the constructor leaves it by default.  The heap is the  *)
(* array of that name, index i of the code being index i + 1 here.         *)
(* Priorities are kept in tenths, so that `priority * 0.8` is an integer.  *)
(* generateId gives every message an id of its own: the number of the      *)
(* enqueue call that made it (`ids` counts the enqueue calls).  A retry    *)
(* timer of setTimeout fires at any time after reject has set it.          *)
(***************************************************************************)
\* the maxSize and retryAttempts options of the constructor
QueueSizes == {1, 2}
RetryArgs == {1, 2}
\* the priority argument of enqueue where acknowledge, reject and the retry
\* timers run too: the default of the parameter
Priorities == {1}
\* the maxSize options and the priorities of the runs of enqueue and dequeue
\* alone
OrderSizes == {2, 3}
OrderPriorities == {1, 2, 3}
\* the ids passed to acknowledge and reject: those generateId gives out and
\* one it never gives out
Ids == 1..(MaxMessages + 1)
\* the default of options.retryDelay, in ms
retryDelay == 1000

\* Math.floor((index - 1) / 2) of heapifyUp, for an index of the code
RECURSIVE heapifyUp(_, _)
heapifyUp(heap, index) ==
  LET parentIndex == (index - 1) \div 2
  IN IF parentIndex >= 0 /\ heap[parentIndex + 1].priority < heap[index + 1].priority
       THEN heapifyUp([heap EXCEPT ![parentIndex + 1] = heap[index + 1],
                                   ![index + 1] = heap[parentIndex + 1]],
                      parentIndex)
       ELSE heap

RECURSIVE heapifyDown(_, _)
heapifyDownSkipped(heap, index) == heap
heapifyDown(heap, index) ==
  LET size == Len(heap)
      leftChild == 2 * index + 1
      rightChild == 2 * index + 2
      l1 == IF leftChild < size
              /\ heap[leftChild + 1].priority > heap[index + 1].priority
              THEN leftChild ELSE index
      largest == IF rightChild < size
                   /\ heap[rightChild + 1].priority > heap[l1 + 1].priority
                   THEN rightChild ELSE l1
  IN IF largest # index
       THEN heapifyDown([heap EXCEPT ![index + 1] = heap[largest + 1],
                                     ![largest + 1] = heap[index + 1]],
                        largest)
       ELSE heap

\* PriorityQueue.push(item, priority): the heap afterwards
HeapPush(heap, item, priority) ==
  heapifyUp(Append(heap, [item |-> item, priority |-> priority]), Len(heap))

\* PriorityQueue.pop() on a heap that is not empty: the heap afterwards
HeapPop(heap) ==
  LET lastNode == heap[Len(heap)]
      rest == SubSeq(heap, 1, Len(heap) - 1)
  IN IF rest = <<>> THEN rest
     ELSE heapifyDown([rest EXCEPT ![1] = lastNode], 0)

InitQueue ==
  /\ mq = [state |-> "none"]
  /\ mqLast = [op |-> "none"]

\* new MessageQueue(name, {maxSize, retryAttempts})
MqConstruct(size, attempts) ==
  /\ mq.state = "none"
  /\ mq' = [state |-> "ready", heap |-> <<>>, processing |-> EmptyFn,
            deadLetterQueue |-> <<>>, timers |-> {}, ids |-> 0,
            maxSize |-> size, retryAttempts |-> attempts,
            messagesProcessed |-> 0, messagesDropped |-> 0,
            messagesRetried |-> 0, deadLetterCount |-> 0]
  /\ mqLast' = [op |-> "new"]
  /\ UNCHANGED NotQueue

\* enqueue(message, priority)
Enqueue(priority) ==
  /\ mq.state = "ready"
  /\ IF Len(mq.heap) >= mq.maxSize
       THEN /\ mq' = [mq EXCEPT !.messagesDropped = @ + 1, !.ids = @ + 1]
            /\ mqLast' = [op |-> "enqueue", ret |-> "threw"]
       ELSE LET messageId == mq.ids + 1
                queueMessage == [id |-> messageId, priority |-> priority,
                                 attempts |-> 0]
            IN /\ mq' = [mq EXCEPT !.heap = HeapPush(@, queueMessage, 10 * priority),
                                   !.ids = messageId]
               /\ mqLast' = [op |-> "enqueue", ret |-> messageId]
  /\ UNCHANGED NotQueue

\* dequeue()
Dequeue ==
  /\ mq.state = "ready"
  /\ IF mq.heap = <<>>
       THEN /\ mqLast' = [op |-> "dequeue", ret |-> NullRet]
            /\ UNCHANGED mq
       ELSE LET message == mq.heap[1]
            IN /\ mq' = [mq EXCEPT !.heap = HeapPop(@),
                                   !.processing = FnSet(@, message.item.id, message.item)]
               /\ mqLast' = [op |-> "dequeue", ret |-> message.item]
  /\ UNCHANGED NotQueue

\* acknowledge(messageId)
Acknowledge(messageId) ==
  /\ mq.state = "ready"
  /\ IF messageId \in DOMAIN mq.processing
       THEN mq' = [mq EXCEPT !.processing = FnDelete(@, messageId),
                             !.messagesProcessed = @ + 1]
       ELSE UNCHANGED mq
  /\ mqLast' = [op |-> "acknowledge"]
  /\ UNCHANGED NotQueue

\* `retry && message.attempts < this.options.retryAttempts` of reject
RetriesAlways(retry, message, attempts) == retry
Retries(retry, message, attempts) == retry /\ message.attempts < attempts

\* reject(messageId, error, retry) with an Error for error
Reject(messageId, retry) ==
  /\ mq.state = "ready"
  /\ IF messageId \notin DOMAIN mq.processing
       THEN UNCHANGED mq
       ELSE LET message == mq.processing[messageId]
            IN IF Retries(retry, message, mq.retryAttempts)
                 THEN mq' = [mq EXCEPT
                               !.processing = FnDelete(@, messageId),
                               !.timers = @ \cup
                                 {[message |-> message,
                                   delay |-> retryDelay * 2 ^ message.attempts]}]
                 ELSE mq' = [mq EXCEPT
                               !.processing = FnDelete(@, messageId),
                               !.deadLetterQueue = Append(@, message),
                               !.deadLetterCount = @ + 1]
  /\ mqLast' = [op |-> "reject", id |-> messageId, retry |-> retry]
  /\ UNCHANGED NotQueue

\* the callback reject passed to setTimeout runs
RetryTimer(timer) ==
  /\ mq.state = "ready"
  /\ timer \in mq.timers
  /\ LET message == [timer.message EXCEPT !.attempts = @ + 1]
     IN mq' = [mq EXCEPT !.timers = @ \ {timer},
                         !.heap = HeapPush(@, message, 8 * message.priority),
                         !.messagesRetried = @ + 1]
  /\ mqLast' = [op |-> "timer"]
  /\ UNCHANGED NotQueue

MqConstructAny == \E size \in QueueSizes, attempts \in RetryArgs : MqConstruct(size, attempts)
EnqueueAny ==
  /\ mq.state = "ready"
  /\ mq.ids < MaxMessages
  /\ \E priority \in Priorities : Enqueue(priority)
AcknowledgeAny == \E messageId \in Ids : Acknowledge(messageId)
RejectAny == \E messageId \in Ids, retry \in BOOLEAN : Reject(messageId, retry)
RetryTimerOf(id) ==
  /\ mq.state = "ready"
  /\ \E timer \in mq.timers : timer.message.id = id /\ RetryTimer(timer)
RetryTimerAny == \E id \in Ids : RetryTimerOf(id)

\* enqueue and dequeue calls alone
MqConstructOrder == \E size \in OrderSizes : MqConstruct(size, 1)
EnqueueOrder ==
  /\ mq.state = "ready"
  /\ mq.ids < MaxEnqueues
  /\ \E priority \in OrderPriorities : Enqueue(priority)

NextQueueOrder ==
  \/ MqConstructOrder
  \/ EnqueueOrder
  \/ Dequeue

NextQueue ==
  \/ MqConstructAny
  \/ EnqueueAny
  \/ Dequeue
  \/ AcknowledgeAny
  \/ RejectAny
  \/ RetryTimerAny

(***************************************************************************)
(* CircuitBreaker                                                          *)
(***************************************************************************)
\* an option the caller leaves out of the options object
Missing == [type |-> "undefined"]
\* `options.x || d` followed by `...options`: a number the caller passes
\* overrides the default, whatever it is
OptionOr(arg, default) == IF arg.type = "number" THEN arg.n ELSE default

DefaultFailureThreshold == 5
DefaultResetTimeout == 30000
\* the successes that close a HALF_OPEN breaker
SuccessesToClose == 3

\* the failureThreshold and resetTimeout options passed to the constructor
FailureThresholds == {Num(1), Num(2), Missing}
ResetTimeouts == {Num(1), Num(2), Missing}
\* how an invoked operation ends: it resolves, it rejects, or the timeout
\* of Promise.race rejects first
Outcomes == {"resolved", "rejected", "timeout"}

InitBreaker ==
  /\ cb = [state |-> "none"]
  /\ cbHist = [executes |-> 0, invoked |-> 0, probes |-> 0]
  /\ cbLast = [op |-> "none"]

CbConstruct(failureThreshold, resetTimeout) ==
  /\ cb.state = "none"
  /\ cb' = [state |-> "CLOSED",
            failureCount |-> 0,
            lastFailureTime |-> Null,
            successCount |-> 0,
            failureThreshold |-> OptionOr(failureThreshold, DefaultFailureThreshold),
            resetTimeout |-> OptionOr(resetTimeout, DefaultResetTimeout),
            clock |-> 0,
            running |-> 0]
  /\ cbLast' = [op |-> "new"]
  /\ UNCHANGED cbHist
  /\ UNCHANGED NotBreaker

\* Date.now() moves on
CbTick ==
  /\ cb.state # "none"
  /\ cb.clock < MaxBreakerClock
  /\ cb' = [cb EXCEPT !.clock = @ + 1]
  /\ cbLast' = [op |-> "tick"]
  /\ UNCHANGED cbHist
  /\ UNCHANGED NotBreaker

\* the test execute makes on an OPEN breaker
ResetElapsed(b) == b.clock - b.lastFailureTime >= b.resetTimeout

\* execute up to its await: an OPEN breaker becomes HALF_OPEN or throws,
\* any other calls operation() and waits for Promise.race
Execute ==
  /\ cb.state # "none"
  /\ cbHist.executes < MaxExecutes
  /\ cb.running < MaxRunning
  /\ IF cb.state = "OPEN" /\ ~ResetElapsed(cb)
       THEN /\ cb' = cb
            /\ cbHist' = [cbHist EXCEPT !.executes = @ + 1]
            /\ cbLast' = [op |-> "execute", invoked |-> FALSE, threw |-> TRUE]
       ELSE /\ cb' = IF cb.state = "OPEN"
                       THEN [cb EXCEPT !.state = "HALF_OPEN",
                                       !.successCount = 0,
                                       !.running = @ + 1]
                       ELSE [cb EXCEPT !.running = @ + 1]
            /\ cbHist' = [executes |-> cbHist.executes + 1,
                          invoked |-> cbHist.invoked + 1,
                          probes |-> IF cb.state = "OPEN" THEN 0 ELSE cbHist.probes]
            /\ cbLast' = [op |-> "execute", invoked |-> TRUE, threw |-> FALSE]
  /\ UNCHANGED NotBreaker

onSuccess(b) ==
  LET reset == [b EXCEPT !.failureCount = 0]
  IN  IF b.state = "HALF_OPEN"
        THEN LET counted == [reset EXCEPT !.successCount = @ + 1]
             IN  IF counted.successCount >= SuccessesToClose
                   THEN [counted EXCEPT !.state = "CLOSED"]
                   ELSE counted
        ELSE reset

\* the test onFailure makes before it opens the breaker
ThresholdReachedNever(b) == FALSE
ThresholdReached(b) == b.failureCount >= b.failureThreshold

onFailure(b) ==
  LET counted == [b EXCEPT !.failureCount = @ + 1, !.lastFailureTime = b.clock]
  IN  IF ThresholdReached(counted)
        THEN [counted EXCEPT !.state = "OPEN"]
        ELSE counted

\* execute after its await: an operation in flight ends
Settle(outcome) ==
  /\ cb.state # "none"
  /\ cb.running > 0
  /\ LET left == [cb EXCEPT !.running = @ - 1]
     IN  IF outcome = "resolved"
           THEN /\ cb' = onSuccess(left)
                /\ cbHist' = [cbHist EXCEPT !.probes =
                                IF cb.state = "HALF_OPEN" THEN @ + 1 ELSE @]
                /\ cbLast' = [op |-> "settle", threw |-> FALSE]
           ELSE /\ cb' = onFailure(left)
                /\ cbHist' = cbHist
                /\ cbLast' = [op |-> "settle", threw |-> TRUE]
  /\ UNCHANGED NotBreaker

\* getState
GetState ==
  /\ cb.state # "none"
  /\ cbLast' = [op |-> "getState",
                ret |-> [state |-> cb.state, failureCount |-> cb.failureCount,
                         lastFailureTime |-> cb.lastFailureTime]]
  /\ UNCHANGED <<cb, cbHist>>
  /\ UNCHANGED NotBreaker

CbConstructAny ==
  \E failureThreshold \in FailureThresholds, resetTimeout \in ResetTimeouts :
    CbConstruct(failureThreshold, resetTimeout)
SettleAny == \E outcome \in Outcomes : Settle(outcome)

NextBreaker ==
  \/ CbConstructAny
  \/ CbTick
  \/ Execute
  \/ SettleAny
  \/ GetState

(***************************************************************************)
(* RateLimiter                                                             *)
(***************************************************************************)
DefaultRefillPeriod == 1000

\* the arguments of the constructor; the periods are powers of two or the
\* default, for which (timePassed / refillPeriod) * refillRate is computed
\* without rounding
Capacities == {1, 2}
RefillRates == {1, 2}
RefillPeriods == {Num(1), Num(2), Missing}
\* the amounts passed to consume
Amounts == {1, 2}

Min(a, b) == IF a < b THEN a ELSE b

InitLimiter ==
  /\ rl = [state |-> "none"]
  /\ rlHist = [consumes |-> 0, units |-> 0]
  /\ rlLast = [op |-> "none"]

RlConstruct(capacity, refillRate, refillPeriod) ==
  /\ rl.state = "none"
  /\ rl' = [state |-> "ready",
            capacity |-> capacity,
            tokens |-> capacity,
            refillRate |-> refillRate,
            refillPeriod |-> OptionOr(refillPeriod, DefaultRefillPeriod),
            lastRefill |-> 0,
            clock |-> 0]
  /\ rlLast' = [op |-> "new"]
  /\ UNCHANGED rlHist
  /\ UNCHANGED NotLimiter

\* Date.now() moves on
RlTick ==
  /\ rl.state = "ready"
  /\ rl.clock < MaxLimiterClock
  /\ rl' = [rl EXCEPT !.clock = @ + 1]
  /\ rlHist' = [rlHist EXCEPT !.units = 0]
  /\ rlLast' = [op |-> "tick"]
  /\ UNCHANGED NotLimiter

\* the tokens a refill leaves in the bucket
RefilledUncapped(r, tokensToAdd) == r.tokens + tokensToAdd
Refilled(r, tokensToAdd) == Min(r.capacity, r.tokens + tokensToAdd)

refill(r) ==
  LET timePassed == r.clock - r.lastRefill
      tokensToAdd == (timePassed * r.refillRate) \div r.refillPeriod
  IN  IF tokensToAdd > 0
        THEN [r EXCEPT !.tokens = Refilled(r, tokensToAdd), !.lastRefill = r.clock]
        ELSE r

Consume(tokens) ==
  /\ rl.state = "ready"
  /\ rlHist.consumes < MaxConsumes
  /\ LET r == refill(rl)
     IN  IF r.tokens >= tokens
           THEN /\ rl' = [r EXCEPT !.tokens = @ - tokens]
                /\ rlHist' = [consumes |-> rlHist.consumes + 1,
                              units |-> IF tokens = 1 THEN rlHist.units + 1
                                                     ELSE rlHist.units]
                /\ rlLast' = [op |-> "consume", tokens |-> tokens, ret |-> TRUE]
           ELSE /\ rl' = r
                /\ rlHist' = [rlHist EXCEPT !.consumes = @ + 1]
                /\ rlLast' = [op |-> "consume", tokens |-> tokens, ret |-> FALSE]
  /\ UNCHANGED NotLimiter

GetAvailableTokens ==
  /\ rl.state = "ready"
  /\ rl' = refill(rl)
  /\ rlLast' = [op |-> "getAvailableTokens", ret |-> rl'.tokens]
  /\ UNCHANGED rlHist
  /\ UNCHANGED NotLimiter

RlConstructAny ==
  \E capacity \in Capacities, refillRate \in RefillRates, refillPeriod \in RefillPeriods :
    RlConstruct(capacity, refillRate, refillPeriod)
ConsumeAny == \E tokens \in Amounts : Consume(tokens)

NextLimiter ==
  \/ RlConstructAny
  \/ RlTick
  \/ ConsumeAny
  \/ GetAvailableTokens

(***************************************************************************)
(* Specifications: one object of one class at a time                       *)
(***************************************************************************)
Init ==
  /\ InitCache
  /\ InitBloom
  /\ InitTrie
  /\ InitEngine
  /\ InitRing
  /\ InitQueue
  /\ InitBreaker
  /\ InitLimiter

\* an AdvancedLRUCache under calls with any key
SpecCache == Init /\ [][NextCache]_vars

\* an AdvancedLRUCache under calls with any value and any ttl argument
SpecCacheTtl == Init /\ [][NextCacheTtl]_vars

\* a BloomFilter from its construction on
SpecBloom == Init /\ [][NextBloom]_vars

\* a Trie under insert, search and startsWith
SpecTrie == Init /\ [][NextTrie]_vars

\* a PerformanceEngine fetching single entries
SpecEngine == Init /\ [][NextEngine]_vars

\* a PerformanceEngine fetching ranges
SpecRange == Init /\ [][NextRange]_vars

\* a PerformanceEngine under calls that overlap
SpecConcurrent == Init /\ [][NextConcurrent]_vars

\* a RingBuffer from its construction on
SpecRing == Init /\ [][NextRing]_vars

\* a MessageQueue under enqueue and dequeue
SpecQueueOrder == Init /\ [][NextQueueOrder]_vars

\* a MessageQueue under all its calls and its retry timers; a timer that
\* setTimeout holds fires in the end
SpecQueue ==
  Init /\ [][NextQueue]_vars /\ \A id \in Ids : WF_vars(RetryTimerOf(id))

\* a CircuitBreaker under execute calls whose operations end in any order
SpecBreaker == Init /\ [][NextBreaker]_vars

\* a RateLimiter under consume calls while time passes
SpecLimiter == Init /\ [][NextLimiter]_vars

(***************************************************************************)
(* Properties of AdvancedLRUCache                                          *)
(***************************************************************************)
Size(c) == Cardinality(DOMAIN c)

\* the timestamp accessOrder holds for a stored key
AccessTime(acc, k) == acc[MapIndex(acc, k)].time

\* the latest call was set(k, ...) on a key that was not stored
InsertsNewKey == last'.op = "set" /\ last'.key \notin DOMAIN cache

\* the latest call was set(k, ...) on a key that was stored
Overwrites == last'.op = "set" /\ last'.key \in DOMAIN cache

\* C1: after every call the number of stored entries is at most maxSize.
C1_CapacityInvariant == Size(cache) <= maxSize

\* C2: a set that inserts a new key into a cache holding maxSize entries
\* removes exactly one stored entry, one whose last access is the oldest.
C2_EvictsOldest ==
  [][(InsertsNewKey /\ Size(cache) = maxSize) =>
       \E victim \in DOMAIN cache :
         /\ DOMAIN cache' = (DOMAIN cache \ {victim}) \cup {last'.key}
         /\ \A x \in DOMAIN cache :
              AccessTime(accessOrder, victim) <= AccessTime(accessOrder, x)]_vars

\* the stored keys that share the oldest last-access timestamp
TiedOldest(acc) ==
  {k \in MapKeys(acc) : \A x \in MapKeys(acc) : AccessTime(acc, k) <= AccessTime(acc, x)}

\* the key among them that was registered first
FirstRegistered(acc, ks) ==
  CHOOSE k \in ks : \A x \in ks : MapIndex(acc, k) <= MapIndex(acc, x)

\* C3: when several stored entries share the oldest last-access timestamp,
\* the entry evicted by an insertion at capacity is the one registered first
\* among them.
C3_TieBreakFirstRegistered ==
  [][(InsertsNewKey /\ Size(cache) = maxSize
        /\ Cardinality(TiedOldest(accessOrder)) > 1) =>
       DOMAIN cache \ DOMAIN cache' =
         {FirstRegistered(accessOrder, TiedOldest(accessOrder))}]_vars

\* C4: a get(key) made more than t after set(key, v, ttl = t), the entry of
\* that set still being tracked, returns absent, removes the entry from the
\* size getStats reports, and counts one miss.
C4_TtlExpiry ==
  [][(/\ last'.op = "get"
      /\ last'.key \in DOMAIN lastSet
      /\ lastSet[last'.key].ttl.type = "number"
      /\ now > lastSet[last'.key].at + lastSet[last'.key].ttl.n) =>
       /\ last'.ret = Null
       /\ last'.key \notin DOMAIN cache'
       /\ Size(cache') = Size(cache) - 1
       /\ missCount' = missCount + 1
       /\ hitCount' = hitCount]_vars

\* C5 as stated: a stored entry is returned by get iff the current time is
\* strictly less than the expiry time set recorded for it; at the instant the
\* two are equal get returns absent.
C5_VisibleIffBeforeExpiry ==
  [][(last'.op = "get" /\ last'.key \in DOMAIN cache) =>
       (last'.ret = cache[last'.key] <=> now < expiryTimes[last'.key])]_vars

\* C5 as amended: a stored entry is returned by get iff the current time is
\* at most the expiry time recorded for it; at the instant the two are equal
\* get still returns the value, and the entry stays stored.
C5_VisibleUntilExpiryInclusive ==
  [][(last'.op = "get" /\ last'.key \in DOMAIN cache) =>
       /\ last'.ret = cache[last'.key] <=> now <= expiryTimes[last'.key]
       /\ last'.ret = Null <=> now > expiryTimes[last'.key]
       /\ last'.key \in DOMAIN cache' <=> now <= expiryTimes[last'.key]]_vars

\* a get made at the very instant of expiry returned the stored value
C5_Witness ==
  /\ last.op = "get"
  /\ last.key \in DOMAIN cache
  /\ last.ret = cache[last.key]
  /\ now = expiryTimes[last.key]

\* C6: set on a stored key replaces its value, resets its expiry to now + ttl,
\* makes it the most recently used key, evicts nothing and keeps the size.
C6_Overwrite ==
  [][Overwrites =>
       LET k == last'.key
           ttl == lastSet'[k].ttl
       IN /\ cache'[k] = last'.val
          /\ expiryTimes'[k] =
               now + (IF ttl.type = "number" THEN ttl.n ELSE defaultTTL)
          /\ AccessTime(accessOrder', k) = now
          /\ \A x \in DOMAIN cache' : AccessTime(accessOrder', x) <= now
          /\ DOMAIN cache' = DOMAIN cache
          /\ \A x \in DOMAIN cache \ {k} : cache'[x] = cache[x]]_vars

\* C7: every get increments exactly one of hitCount and missCount, hitCount
\* exactly when it returns a stored unexpired value; set and delete change
\* neither; hitCount + missCount is the number of get calls since
\* construction or the last clear.
C7_HitMissAccounting ==
  [][/\ last'.op = "get" =>
          LET k == last'.key IN
          IF k \in DOMAIN cache /\ now <= expiryTimes[k]
            THEN /\ last'.ret = cache[k]
                 /\ hitCount' = hitCount + 1
                 /\ missCount' = missCount
            ELSE /\ last'.ret = Null
                 /\ hitCount' = hitCount
                 /\ missCount' = missCount + 1
     /\ last'.op \in {"set", "delete"} =>
          hitCount' = hitCount /\ missCount' = missCount
     /\ hitCount' + missCount' = getCalls']_vars

\* a hit and a miss on an expired entry have both been counted
C7_Witness ==
  /\ last.op = "get"
  /\ hitCount = 1
  /\ missCount = 1
  /\ getCalls = 2
  /\ cache = EmptyFn
  /\ now > 1

(***************************************************************************)
(* Properties of BloomFilter                                               *)
(***************************************************************************)
\* expectedItems > 0 and 0 < falsePositiveRate < 1
ValidConfig(f) ==
  f.expectedItems > 0 /\ f.falsePositiveRate > 0 /\ f.falsePositiveRate < 1000

C9_ConstructionError ==
  (bf.state # "none" /\ ~ValidConfig(bf)) => bf.state = "threw"

(***************************************************************************)
(* Properties of Trie                                                      *)
(***************************************************************************)
SameWord(u, v) == toLowerCase(u) = toLowerCase(v)

\* the insert calls made with the word w, whatever its case
InsertsOf(w) == {i \in 1..Len(inserts) : SameWord(inserts[i].word, w)}

\* the payload of the most recent of them
LatestPayload(w) ==
  inserts[CHOOSE i \in InsertsOf(w) : \A j \in InsertsOf(w) : j <= i].data

IsPrefix(pre, w) == Len(pre) <= Len(w) /\ SubSeq(w, 1, Len(pre)) = pre

\* the distinct indexed words that start with the prefix
IndexedUnder(pre) ==
  {toLowerCase(inserts[i].word) : i \in
     {j \in 1..Len(inserts) :
        IsPrefix(toLowerCase(pre), toLowerCase(inserts[j].word))}}

\* how often the word occurs in a startsWith result
Occurrences(results, w) ==
  Cardinality({i \in 1..Len(results) : results[i].word = toLowerCase(w)})

\* search returns the latest payload, frequency counts the inserts, wordCount
\* counts the word once
RoundTripAndFrequency ==
  /\ \A i \in 1..Len(inserts) :
       LET w == inserts[i].word IN
       /\ \A u \in Words : SameWord(u, w) => search(trie, u) = LatestPayload(w)
       /\ trie[toLowerCase(w)].isEndOfWord
       /\ trie[toLowerCase(w)].frequency = Cardinality(InsertsOf(w))
  /\ wordCount = Cardinality({toLowerCase(inserts[i].word) : i \in 1..Len(inserts)})
  /\ (trieLast.op = "search" /\ InsertsOf(trieLast.word) # {}) =>
       trieLast.ret = LatestPayload(trieLast.word)

\* the inserted words that start with the prefix of the latest startsWith call
Matching ==
  {i \in 1..Len(inserts) :
     IsPrefix(toLowerCase(trieLast.word), toLowerCase(inserts[i].word))}

\* C10 as stated: after insert(w, p), search(w) returns the latest payload of
\* w, its frequency is the number of its inserts, wordCount counts it once,
\* and it appears exactly once in the result of a startsWith on any of its
\* prefixes.
C10_RoundTripExactlyOnce ==
  /\ RoundTripAndFrequency
  /\ trieLast.op = "startsWith" =>
       \A i \in Matching :
         Occurrences(trieLast.results, inserts[i].word) = 1

\* C10 as amended: the same, the word appearing at most once in the result of
\* startsWith(prefix, limit) for any limit, and exactly once when limit is at
\* least the number of distinct indexed words that start with the prefix.
C10_RoundTripAtMostOnce ==
  /\ RoundTripAndFrequency
  /\ trieLast.op = "startsWith" =>
       \A i \in Matching :
         LET n == Occurrences(trieLast.results, inserts[i].word)
         IN /\ n <= 1
            /\ trieLast.limit >= Cardinality(IndexedUnder(trieLast.word)) => n = 1

\* "a" was inserted twice, in two cases and with two payloads, another word
\* in between; startsWith("", 2) listed it once, with frequency 2
C10_Witness ==
  /\ Len(inserts) = 3
  /\ inserts[1] = [word |-> <<"a">>, data |-> "p1"]
  /\ inserts[2].word = <<"b">>
  /\ inserts[3] = [word |-> <<"A">>, data |-> "p2"]
  /\ wordCount = 2
  /\ search(trie, <<"a">>) = "p2"
  /\ trieLast.op = "startsWith"
  /\ trieLast.word = <<>>
  /\ trieLast.limit = 2
  /\ Len(trieLast.results) = 2
  /\ trieLast.results[1] = [word |-> <<"a">>, data |-> "p2", frequency |-> 2]

\* the words of a startsWith result
ResultWords(results) == {results[i].word : i \in 1..Len(results)}

\* C11: startsWith(prefix, limit) returns the limit highest-frequency words
\* among all indexed words that start with the prefix (all of them when there
\* are fewer than limit), sorted by frequency descending; no omitted word has
\* a strictly higher frequency than an included one.
C11_TopByFrequency ==
  trieLast.op = "startsWith" =>
    LET res == trieLast.results
        under == IndexedUnder(trieLast.word)
    IN /\ ResultWords(res) \subseteq under
       /\ Len(res) = IF Cardinality(under) < trieLast.limit
                       THEN Cardinality(under) ELSE trieLast.limit
       /\ \A i \in 1..Len(res) : res[i].frequency = trie[res[i].word].frequency
       /\ \A i, j \in 1..Len(res) : i < j => res[i].frequency >= res[j].frequency
       /\ \A w \in under \ ResultWords(res) :
            \A i \in 1..Len(res) : res[i].frequency >= trie[w].frequency

(***************************************************************************)
(* Properties of PerformanceEngine                                         *)
(***************************************************************************)
\* the filter of the engine answers "definitely absent" for the date
SaysAbsent(f, d) == ~ContainsResult(f, DateChars(d))

\* this step settles the call of caller t
Settles(t) == tasks[t].pc # "idle" /\ tasks'[t].pc = "idle"

\* C12: whenever the membership filter answers definitely-absent for a key,
\* getEntry(key) resolves to absent without any access to the backing store,
\* neither an existence check nor a read.  By contraposition: a getEntry
\* that waits for fs.pathExists or fs.readJson, that has had an answer from
\* either, or that returned something else than null, is a getEntry for a
\* key the filter does not answer definitely-absent for.
C12_NegativeShortCircuit ==
  \A t \in Tasks :
    (/\ tasks[t].op = "getEntry"
     /\ initState = "done"
     /\ \/ tasks[t].pc \in {"pathExists", "readJson"}
        \/ tasks[t].io # 0
        \/ tasks[t].pc = "idle" /\ tasks[t].ret # NullRet) =>
      ~SaysAbsent(existsFilter, tasks[t].date)

\* getEntry returned absent, without any access to the store, for a date
\* whose file exists but was written after the filter was built, the filter
\* holding another date
C12_Witness ==
  /\ initState = "done"
  /\ existsFilter.itemCount = 1
  /\ tasks[1].op = "getEntry"
  /\ tasks[1].pc = "idle"
  /\ tasks[1].date \in entryFiles
  /\ SaysAbsent(existsFilter, tasks[1].date)
  /\ tasks[1].ret = NullRet
  /\ tasks[1].io = 0
  /\ queryCount = 1

\* C13: the filter is seeded at initialization with the keys the store holds
\* then, and a key added to the store afterwards is appended to the filter
\* once it is observed: after a getEntry or entryExists for a key that the
\* store holds has returned, the filter holds the key.
C13_FilterGrowth ==
  [][/\ (initState = "bloom" /\ initState' = "index") =>
          \A d \in entryFiles : ~SaysAbsent(existsFilter', d)
     /\ \A t \in Tasks :
          (Settles(t) /\ tasks'[t].op \in {"getEntry", "entryExists"}
             /\ tasks'[t].date \in entryFiles') =>
            ~SaysAbsent(existsFilter', tasks'[t].date)]_vars

\* C14: when getEntry(key) finds that the store has no value for the key,
\* nothing recording that absence is put in the cache; a getEntry(key) that
\* passes the filter while the store holds a value for the key, and whose
\* read does not fail, returns that value.
C14_NoNegativeCaching ==
  [][/\ \A t \in Tasks :
          (tasks[t].op = "getEntry" /\ tasks'[t] # tasks[t]) =>
            \A k \in DOMAIN pCache'.cache :
              pCache'.cache[k] \in {NullRet, BoolRet(FALSE)} =>
                k \in DOMAIN pCache.cache /\ pCache.cache[k] = pCache'.cache[k]
     /\ \A t \in Tasks :
          (Settles(t) /\ tasks'[t].op = "getEntry"
             /\ tasks'[t].date \in entryFiles
             /\ ~SaysAbsent(existsFilter, tasks'[t].date)
             /\ tasks'[t].failed = 0) =>
            tasks'[t].ret = EntryRet(EntryFile(tasks'[t].date))]_vars

\* the word is a term of the prefix index
Indexed(tr, word) ==
  LET node == searchNode(tr.nodes, word)
  IN node # <<>> /\ tr.nodes[node[1]].isEndOfWord

\* this step is the answer of fs.readJson to the getEntry of caller t
ReadAnswered(t) == tasks[t].pc = "readJson" /\ tasks'[t].pc # "readJson"

\* C15: when getEntry(key) misses the cache and the store returns a record,
\* then on return the cache holds that record under the key with the default
\* TTL, and every token the record yields, its technologies and its message
\* keywords as indexed at warm-up, is in the prefix index.
C15_CachePopulation ==
  [][\A t \in Tasks :
       (ReadAnswered(t) /\ tasks'[t].failed = tasks[t].failed) =>
         LET d == tasks[t].date
             entry == EntryFile(d)
             tokens == WarmUpTokens(entry, 1)
         IN /\ EntryKey(d) \in DOMAIN pCache'.cache
            /\ pCache'.cache[EntryKey(d)] = EntryRet(entry)
            /\ pCache'.expiryTimes[EntryKey(d)] = clock + EntryTTL
            /\ \A i \in 1..Len(tokens) : Indexed(searchTrie', tokens[i].word)]_vars

\* the cache key of the call of a caller
KeyOf(tk) ==
  IF tk.op = "getEntry" THEN EntryKey(tk.date)
  ELSE RangeKey(tk.start, tk.end, tk.limit)

\* the ttl the engine caches the result of the call with
TtlOf(tk) == IF tk.op = "getEntry" THEN EntryTTL ELSE RangeTTL

\* the value is one record or a list of at least one record
HasRecords(v) ==
  v.kind = "entry" \/ (v.kind = "entries" /\ v.list # <<>>)

\* this step is the first of the call of caller t after `await this.initialize()`
AsksCache(t) ==
  /\ tasks[t].op \in {"getEntry", "getEntriesInRange"}
  /\ tasks[t].visited = <<>>
  /\ tasks[t].pc \in {"getEntry_initialize", "getEntriesInRange_initialize"}
  /\ tasks'[t] # tasks[t]

\* C16: after getEntriesInRange(start, end, limit) or getEntry(date) has
\* returned records, an identical call made before the cached result expires
\* returns the same result, and no access to the store is made for it.
C16_RepeatReadFromCache ==
  [][\A t \in Tasks :
       LET key == KeyOf(tasks[t]) IN
       (/\ AsksCache(t)
        /\ key \in DOMAIN returned
        /\ HasRecords(returned[key].ret)
        /\ clock <= returned[key].at + TtlOf(tasks[t])) =>
         /\ tasks'[t].pc = "idle"
         /\ tasks'[t].ret = returned[key].ret
         /\ tasks'[t].io = 0
         /\ entryFiles' = entryFiles]_vars

\* a second getEntriesInRange(1, 2, 2) returned the two records of the first
\* out of the cache: the store was reached three times in all, by the first
\* call
C16_Witness ==
  /\ calls = 2
  /\ queryCount = 4
  /\ tasks[1].op = "getEntriesInRange"
  /\ tasks[1].pc = "idle"
  /\ tasks[1].cached
  /\ tasks[1].io = 0
  /\ tasks[1].ret = ListRet(<<EntryFile(1), EntryFile(2)>>)
  /\ RangeKey(1, 2, 2) \in DOMAIN returned
  /\ returned[RangeKey(1, 2, 2)].ret = tasks[1].ret
  /\ pCache.hitCount = 1

\* the records among the results of the getEntry calls a range awaited
RECURSIVE Found(_, _)
Found(visited, i) ==
  IF i > Len(visited) THEN <<>>
  ELSE (IF visited[i].ret.kind = "entry" THEN <<visited[i].ret.entry>> ELSE <<>>)
         \o Found(visited, i + 1)

\* the two caches hold the same under the key: nothing, or the same value
\* with the same expiry
SameUnder(c1, c2, k) ==
  /\ k \in DOMAIN c1.cache <=> k \in DOMAIN c2.cache
  /\ k \in DOMAIN c1.cache =>
       c1.cache[k] = c2.cache[k] /\ c1.expiryTimes[k] = c2.expiryTimes[k]

\* C17: when the read of the store fails, getEntry resolves to absent, the
\* cache and the prefix index are left as they were for that key, and a
\* getEntriesInRange that includes the key goes on and returns the records
\* of the other keys.
C17_ReadFailureAbsorbed ==
  [][\A t \in Tasks :
       (ReadAnswered(t) /\ tasks'[t].failed = tasks[t].failed + 1) =>
         LET d == tasks[t].date IN
         /\ SameUnder(pCache', pCache, EntryKey(d))
         /\ searchTrie' = searchTrie
         /\ tasks[t].op = "getEntry" =>
              tasks'[t].pc = "idle" /\ tasks'[t].ret = NullRet
         /\ tasks[t].op = "getEntriesInRange" =>
              /\ tasks'[t].entries = tasks[t].entries
              /\ tasks'[t].pc \in {"getEntry_initialize", "idle"}
              /\ tasks'[t].pc = "idle" =>
                   /\ tasks'[t].ret.kind = "entries"
                   /\ Len(tasks'[t].ret.list) = Len(tasks[t].entries)
                   /\ \A i \in 1..Len(tasks[t].entries) :
                        \E j \in 1..Len(tasks'[t].ret.list) :
                          tasks'[t].ret.list[j] = tasks[t].entries[i]]_vars

\* getEntriesInRange(1, 2, 2) returned the record of day 2 although the read
\* of day 1 failed
C17_Witness ==
  /\ tasks[1].op = "getEntriesInRange"
  /\ tasks[1].pc = "idle"
  /\ tasks[1].failed = 1
  /\ tasks[1].visited = <<[date |-> 1, ret |-> NullRet],
                          [date |-> 2, ret |-> EntryRet(EntryFile(2))]>>
  /\ tasks[1].ret = ListRet(<<EntryFile(2)>>)
  /\ EntryKey(1) \notin DOMAIN pCache.cache
  /\ readFailures = 1

\* C18: each read failure getEntry absorbs increments an error counter that
\* the statistics of the engine expose: once a read has failed, one of the
\* counters getPerformanceStats reports is the number of read failures
\* absorbed so far.
C18_FailuresCounted ==
  readFailures > 0 => \E f \in DOMAIN Stats : Stats[f] = readFailures

\* the dates of the records are strictly ascending
StrictlyAscending(list) ==
  \A i \in 1..Len(list) : \A j \in 1..Len(list) : i < j => list[i].date < list[j].date

\* C19: the result of getEntriesInRange is strictly ascending by key, on the
\* sequential and on the batch path.
C19_RangeOrdering ==
  \A t \in Tasks :
    (tasks[t].op = "getEntriesInRange" /\ tasks[t].pc = "idle") =>
      /\ tasks[t].ret.kind = "entries"
      /\ StrictlyAscending(tasks[t].ret.list)

\* getEntriesInRange(2, 40, 2) returned, by the batch path, the record of day
\* 2 before that of day 40
C19_Witness ==
  /\ tasks[1].op = "getEntriesInRange"
  /\ tasks[1].pc = "idle"
  /\ UseBatch(tasks[1].start, tasks[1].end)
  /\ ~tasks[1].cached
  /\ tasks[1].ret = ListRet(<<EntryFile(2), EntryFile(40)>>)

\* the first n elements of a sequence, all of them when it has fewer
FirstN(seq, n) == SubSeq(seq, 1, IF Len(seq) < n THEN Len(seq) ELSE n)

\* the dates of the store inside [start, end], ascending
InRange(s, e) == Ascending({d \in entryFiles : s <= d /\ d <= e})

\* the dates of the model inside [start, end], ascending
DaysOf(s, e) == Ascending({d \in Dates : s <= d /\ d <= e})

\* C20: getEntriesInRange returns at most limit records, each the record of
\* a key in [start, end] that getEntry resolved; they are the records of the
\* first min(limit, number of present keys) present keys in key order, on
\* the sequential and on the batch path.  Over a store that does not change
\* the present keys are those of the store when no read fails, and those
\* whose read did not fail otherwise.
C20_RangeContentAndLimit ==
  \A t \in Tasks :
    (tasks[t].op = "getEntriesInRange" /\ tasks[t].pc = "idle" /\ ~tasks[t].cached) =>
      LET tk == tasks[t]
          list == tk.ret.list
          stored == InRange(tk.start, tk.end)
          days == DaysOf(tk.start, tk.end)
      IN /\ Len(list) <= tk.limit
         /\ \A i \in 1..Len(list) :
              /\ tk.start <= list[i].date /\ list[i].date <= tk.end
              /\ list[i] = EntryFile(list[i].date)
              /\ list[i].date \in entryFiles
         /\ list = Found(tk.visited, 1)
         /\ Len(tk.visited) <= Len(days)
         /\ \A i \in 1..Len(tk.visited) : tk.visited[i].date = days[i]
         /\ Len(list) < tk.limit => Len(tk.visited) = Len(days)
         /\ tk.failed = 0 =>
              list = [i \in 1..Len(FirstN(stored, tk.limit)) |-> EntryFile(stored[i])]

\* getEntriesInRange(2, 40, 1) returned, by the batch path, the record of day
\* 2 alone, the store holding the files of all three days
C20_Witness ==
  /\ entryFiles = Dates
  /\ tasks[1].op = "getEntriesInRange"
  /\ tasks[1].pc = "idle"
  /\ ~tasks[1].cached
  /\ tasks[1].start = 2
  /\ tasks[1].end = 40
  /\ tasks[1].limit = 1
  /\ tasks[1].ret = ListRet(<<EntryFile(2)>>)
  /\ Len(tasks[1].visited) = 1

\* the getEntry lookups the range call of caller t has in flight
InFlight(t) ==
  IF tasks[t].pc \in {"getEntry_initialize", "entryExists_initialize",
                      "pathExists", "readJson"}
    THEN 1 ELSE 0

\* C21: during one getEntriesInRange call on the batch path the number of
\* getEntry lookups in flight never exceeds the pool size of 10, and every
\* slot taken is released when its lookup finishes, whether it succeeds or
\* fails: the slots taken are those of the lookups in flight, and none is
\* taken once the call has returned.
C21_BoundedWindow ==
  \A t \in Tasks :
    (tasks[t].op = "getEntriesInRange" /\ UseBatch(tasks[t].start, tasks[t].end)) =>
      /\ InFlight(t) <= PoolSize
      /\ Cardinality(tasks[t].semaphore) = InFlight(t)
      /\ tasks[t].pc # "checkSlot"
      /\ tasks[t].pc = "idle" => tasks[t].semaphore = {}

\* getEntriesInRange(2, 40, 2) returned by the batch path after two lookups,
\* the read of day 2 having failed, and no slot is taken
C21_Witness ==
  /\ tasks[1].op = "getEntriesInRange"
  /\ tasks[1].pc = "idle"
  /\ UseBatch(tasks[1].start, tasks[1].end)
  /\ Len(tasks[1].visited) = 2
  /\ tasks[1].visited[1].ret = NullRet
  /\ tasks[1].failed = 1
  /\ tasks[1].slotIndex = 0
  /\ tasks[1].semaphore = {}

\* C22: two getEntry(k) calls for the same uncached key that overlap at the
\* read of the store both miss the cache, both read the store and both
\* write the cache, no fetch in flight being shared; the cache ends with one
\* entry for k, holding the value of the store.  When fs.readJson answers
\* the second of two such calls, the first having read the store itself,
\* the call takes its own answer, writes it, and the cache holds the record
\* under the key it held it under before.
C22_CacheStampede ==
  [][\A t \in Tasks : \A u \in Tasks \ {t} :
       (/\ ReadAnswered(t)
        /\ tasks'[t].failed = tasks[t].failed
        /\ tasks[t].op = "getEntry"
        /\ tasks[u].op = "getEntry"
        /\ tasks[u].date = tasks[t].date
        /\ tasks[u].pc = "idle"
        /\ ~tasks[u].cached
        /\ tasks[u].ret.kind = "entry") =>
         LET key == EntryKey(tasks[t].date)
             value == EntryRet(EntryFile(tasks[t].date))
         IN /\ tasks'[t].io = tasks[t].io + 1
            /\ tasks'[t].pc = "idle"
            /\ ~tasks'[t].cached
            /\ tasks'[t].ret = value
            /\ tasks[u].ret = value
            /\ key \in DOMAIN pCache.cache
            /\ DOMAIN pCache'.cache = DOMAIN pCache.cache
            /\ pCache'.cache[key] = value
            /\ pCache'.expiryTimes[key] = clock + EntryTTL]_vars

\* both callers called getEntry(1), both missed the cache, both had fs.readJson
\* answer, and the cache holds the record once
C22_Witness ==
  /\ \A t \in Tasks :
       /\ tasks[t].op = "getEntry"
       /\ tasks[t].date = 1
       /\ tasks[t].pc = "idle"
       /\ ~tasks[t].cached
       /\ tasks[t].io >= 1
       /\ tasks[t].ret = EntryRet(EntryFile(1))
  /\ clock = 1
  /\ pCache.hitCount <= 1
  /\ pCache.cache[EntryKey(1)] = EntryRet(EntryFile(1))
  /\ queryCount = 2

\* the call of caller t has gone past its `await this.initialize()`
PastInitialize(t) ==
  \/ tasks[t].pc \in {"pathExists", "readJson", "checkSlot"}
  \/ tasks[t].pc = "idle" /\ tasks[t].op # "none"
  \/ tasks[t].visited # <<>>
  \/ tasks[t].pc = "entryExists_initialize" /\ tasks[t].op # "entryExists"

\* C28: under any interleaving of initialize, entryExists, getEntry and
\* getEntriesInRange calls that overlap, performInitialization is started at
\* most once, and no call consults the membership filter or the cache before
\* that initialization has completed.
C28_SingleFlightInit ==
  /\ initStarts <= 1
  /\ (initState # "none") = (initStarts = 1)
  /\ (\/ \E t \in Tasks : PastInitialize(t)
      \/ pCache.hitCount + pCache.missCount > 0
      \/ DOMAIN pCache.cache # {}) => initState = "done"

\* two calls wait for the one initialization, which stands at buildSearchIndex
C28_Witness ==
  /\ initState = "index"
  /\ initStarts = 1
  /\ calls = 2
  /\ tasks[1].pc = "getEntry_initialize"
  /\ tasks[2].pc = "initialize"
  /\ pCache.missCount = 0

(***************************************************************************)
(* Properties of RingBuffer                                                *)
(***************************************************************************)
\* the last n elements of a sequence, all of them when it has fewer
LastN(seq, n) ==
  IF Len(seq) <= n THEN seq ELSE SubSeq(seq, Len(seq) - n + 1, Len(seq))

\* the sequence from its last element to its first
Reversed(seq) == [k \in 1..Len(seq) |-> seq[Len(seq) + 1 - k]]

\* C23: after any sequence of push calls on a RingBuffer of size S, count is
\* at most S; the buffer holds the last S items pushed, all of them while
\* fewer were pushed: toArray returns them oldest first, and getLatest(n)
\* returns the min(n, count) most recently pushed items, newest first.
C23_RingBoundAndContent ==
  rb.state = "ready" =>
    /\ rb.count <= rb.size
    /\ rb.count = Len(LastN(pushed, rb.size))
    /\ RingArray(rb) = LastN(pushed, rb.size)
    /\ \A n \in LatestArgs :
         RingLatest(rb, n) = Reversed(LastN(pushed, IF n < rb.count THEN n ELSE rb.count))
    /\ rbLast.op = "toArray" => rbLast.ret = LastN(pushed, rb.size)
    /\ rbLast.op = "getLatest" =>
         rbLast.ret = Reversed(LastN(pushed, IF rbLast.n < rb.count
                                              THEN rbLast.n ELSE rb.count))

\* a RingBuffer of size 2 after the pushes x, y, y, x: getLatest(3) returned
\* x, y
C23_Witness ==
  /\ rb.state = "ready"
  /\ rb.size = 2
  /\ pushed = <<"x", "y", "y", "x">>
  /\ rbLast.op = "getLatest"
  /\ rbLast.n = 3
  /\ rbLast.ret = <<"x", "y">>

(***************************************************************************)
(* Properties of MessageQueue                                              *)
(***************************************************************************)
\* the messages queued
Queued(q) == {q.heap[i].item : i \in 1..Len(q.heap)}

\* this step is a call of the method
Calls(op) == mqLast'.op = op /\ <<mq, mqLast>>' # <<mq, mqLast>>

\* C24: for any sequence of enqueue and dequeue calls, each dequeue returns
\* a message whose priority is greater than or equal to the priority of
\* every message still queued and moves it into the processing set; on an
\* empty queue it returns null and changes nothing.
C24_PriorityDequeue ==
  [][Calls("dequeue") =>
       IF mq.heap = <<>>
         THEN mqLast'.ret = NullRet /\ mq' = mq
         ELSE LET m == mqLast'.ret
              IN /\ m \in Queued(mq)
                 /\ \A x \in Queued(mq') : m.priority >= x.priority
                 /\ Queued(mq') = Queued(mq) \ {m}
                 /\ Len(mq'.heap) = Len(mq.heap) - 1
                 /\ mq'.processing = FnSet(mq.processing, m.id, m)]_vars

\* of three messages queued with priorities 1, 3 and 2 the second dequeue
\* returned the one of priority 2
C24_Witness ==
  /\ mq.state = "ready"
  /\ mqLast.op = "dequeue"
  /\ mqLast.ret = [id |-> 3, priority |-> 2, attempts |-> 0]
  /\ DOMAIN mq.processing = {2, 3}
  /\ Queued(mq) = {[id |-> 1, priority |-> 1, attempts |-> 0]}

\* the ids of the messages a retry timer holds
Pending(q) == {timer.message.id : timer \in q.timers}

\* every message of the queue, wherever it is
Messages(q) ==
  Queued(q) \cup Range(q.processing) \cup Range(q.deadLetterQueue)
    \cup {timer.message : timer \in q.timers}

C30_QueueSizeBound ==
  [][mq'.state = "ready" =>
       /\ Len(mq'.heap) <= mq'.maxSize
       /\ (Calls("enqueue") /\ Len(mq.heap) >= mq.maxSize) =>
            /\ mqLast'.ret = "threw"
            /\ mq'.messagesDropped = mq.messagesDropped + 1
            /\ mq'.heap = mq.heap]_vars

(***************************************************************************)
(* Properties of CircuitBreaker                                            *)
(***************************************************************************)
\* the step is an execute call up to its await
Executes == cbHist'.executes = cbHist.executes + 1
\* the step is the end of an operation: it resolved, or it failed
Resolves == cb'.running = cb.running - 1 /\ ~cbLast'.threw
Fails == cb'.running = cb.running - 1 /\ cbLast'.threw

\* C26: a failure that brings failureCount to failureThreshold or beyond
\* opens the breaker, and nothing else opens it; a success resets
\* failureCount to 0; an execute on an OPEN breaker whose last failure is
\* less than resetTimeout ago throws without invoking the operation and
\* leaves state and failureCount as they are.
C26_OpensAndBlocks ==
  [][cb.state # "none" =>
       /\ Fails =>
            /\ cb'.failureCount = cb.failureCount + 1
            /\ cb'.failureCount >= cb.failureThreshold => cb'.state = "OPEN"
       /\ Resolves => cb'.failureCount = 0
       /\ (cb.state # "OPEN" /\ cb'.state = "OPEN") =>
            Fails /\ cb'.failureCount >= cb.failureThreshold
       /\ (Executes /\ cb.state = "OPEN"
             /\ cb.clock - cb.lastFailureTime < cb.resetTimeout) =>
            /\ cbLast'.threw
            /\ cbHist'.invoked = cbHist.invoked
            /\ cb'.running = cb.running
            /\ cb'.state = "OPEN"
            /\ cb'.failureCount = cb.failureCount]_vars

\* a breaker with failureThreshold 2 had a failure, a success and two more
\* failures, is OPEN, and has just turned an execute call away
C26_Witness ==
  /\ cb.state = "OPEN"
  /\ cb.failureThreshold = 2
  /\ cb.failureCount = 2
  /\ cbHist.executes = 5
  /\ cbHist.invoked = 4
  /\ cbLast = [op |-> "execute", invoked |-> FALSE, threw |-> TRUE]

\* C29: an execute on a breaker that has been OPEN for resetTimeout or
\* longer makes it HALF_OPEN and invokes the operation; a HALF_OPEN breaker
\* becomes CLOSED only on a success, the third or a later one since it
\* became HALF_OPEN; a failure while HALF_OPEN makes it OPEN.
C29_HalfOpenProbing ==
  [][cb.state # "none" =>
       /\ (Executes /\ cb.state = "OPEN"
             /\ cb.clock - cb.lastFailureTime >= cb.resetTimeout) =>
            /\ cb'.state = "HALF_OPEN"
            /\ cbHist'.invoked = cbHist.invoked + 1
       /\ (cb.state = "HALF_OPEN" /\ cb'.state = "CLOSED") =>
            Resolves /\ cbHist'.probes >= SuccessesToClose
       /\ (cb.state # "CLOSED" /\ cb'.state = "CLOSED") => cb.state = "HALF_OPEN"
       /\ (Fails /\ cb.state = "HALF_OPEN") => cb'.state = "OPEN"]_vars

(***************************************************************************)
(* Properties of RateLimiter                                               *)
(***************************************************************************)
\* the step is a consume call
Consumes == rlHist'.consumes = rlHist.consumes + 1

\* C27: the tokens stay within 0..capacity; consume(n) returns true and
\* takes n tokens when the bucket holds at least n after the refill, and
\* returns false and takes none otherwise; between two moves of the clock
\* at most capacity calls of consume(1) return true.
C27_TokenBucketBounds ==
  [][rl'.state = "ready" =>
       /\ rl'.tokens \in 0..rl'.capacity
       /\ rlHist'.units <= rl'.capacity
       /\ Consumes =>
            LET available == refill(rl).tokens
            IN  IF available >= rlLast'.tokens
                  THEN rlLast'.ret = TRUE /\ rl'.tokens = available - rlLast'.tokens
                  ELSE rlLast'.ret = FALSE /\ rl'.tokens = available]_vars

\* a bucket of capacity 1 was emptied, refilled as the clock moved, emptied
\* again by consume(1), and has just refused another consume(1)
C27_Witness ==
  /\ rl.state = "ready"
  /\ rl.capacity = 1
  /\ rl.lastRefill > 0
  /\ rl.tokens = 0
  /\ rlHist.units = rl.capacity
  /\ rlLast = [op |-> "consume", tokens |-> 1, ret |-> FALSE]

=============================================================================
